---------------------------- MODULE Spec2Model ----------------------------
(***************************************************************************)
(* Model of the GME symbolic derivation engine, class Equations of         *)
(* Packages/gme/equations.py.                                              *)
(*                                                                         *)
(* The engine instance is an attribute store filled by one forward pass    *)
(* of the constructor through the derivation methods.  Each derivation     *)
(* method is one action.  The algebra performed by SymPy is abstracted:    *)
(* a stored equation is the opaque value "eqn" (or a tag naming which      *)
(* branch produced it), the explicit not-available marker is "None", and   *)
(* an attribute that was never assigned is "absent".  Lists returned by    *)
(* the solver whose contents decide the control flow (root candidates      *)
(* that are filtered by admissibility tests) are chosen                    *)
(* nondeterministically from bounded sets.                                 *)
(***************************************************************************)
EXTENDS Integers, Sequences, FiniteSets, TLC

(***************************************************************************)
(* Bounds                                                                  *)
(***************************************************************************)
\* largest number of candidate roots a solve() call returns in the model
MaxRoots ==
  2

(***************************************************************************)
(* Constructor arguments.  Rationals are pairs <<numerator, denominator>>  *)
(* in lowest terms.                                                        *)
(***************************************************************************)
EtaValues ==
  { <<1, 4>>, <<1, 2>>, <<1, 1>>, <<3, 2>>, <<2, 1>> }

MuValues ==
  { <<1, 2>>, <<3, 4>> }

BetaTypes ==
  { "sin", "tan", "cot" }

VarphiTypes ==
  { "ramp", "ramp-flat", "flat" }

IbcTypes ==
  { "planar", "convex-up", "concave-up", "linear" }

\* parameters is either None or a substitution mapping (a dict)
ParameterValues ==
  { "None", "mapping" }

Args ==
  [ parameters : ParameterValues, eta : EtaValues, mu : MuValues,
    beta_type : BetaTypes, varphi_type : VarphiTypes, ibc_type : IbcTypes,
    do_raw : BOOLEAN, do_idtx : BOOLEAN, do_geodesic : BOOLEAN,
    do_nothing : BOOLEAN ]

\* comparisons of a Rational with 1, as used by the guards of the stages
IsOne(q) ==
  q[1] = q[2]

Geq1(q) ==
  q[1] >= q[2]

Leq1(q) ==
  q[1] <= q[2]

denom_as_numer(q) ==
  q[1]

\* sympy.denom of a Rational, which sympy keeps in lowest terms (line 245)
denom(q) ==
  q[2]

(***************************************************************************)
(* Attribute names.                                                        *)
(***************************************************************************)
ConfigNames ==
  { "eta", "mu", "do_raw", "ibc_type", "beta_type", "varphi_type" }

W_define_p_eqns ==
  { "p_covec_eqn", "px_p_beta_eqn", "pz_p_beta_eqn", "p_norm_pxpz_eqn", "tanbeta_pxpz_eqn",
    "sinbeta_pxpz_eqn", "cosbeta_pxpz_eqn", "pz_px_tanbeta_eqn", "px_pz_tanbeta_eqn",
    "p_pz_cosbeta_eqn" }

W_define_r_eqns ==
  { "rx_r_alpha_eqn", "rz_r_alpha_eqn" }

W_define_xi_eqns ==
  { "xi_p_eqn", "xiv_pz_eqn", "p_xi_eqn", "pz_xiv_eqn" }

W_define_xi_model_eqn ==
  { "xi_varphi_beta_eqn" }

W_define_xi_related_eqns ==
  { "xiv_varphi_pxpz_eqn", "px_xiv_varphi_eqn", "eta_dbldenom" }

W_define_varphi_model_eqn ==
  { "varphi_model_ramp_eqn", "varphi_model_rampmu_chi0_eqn", "varphi_model_rampflat_eqn",
    "varphi_model_rampflatmu_eqn", "varphi_rx_eqn" }

W_define_varphi_related_eqns ==
  { "p_varphi_beta_eqn", "p_varphi_pxpz_eqn", "p_rx_pxpz_eqn", "p_rx_tanbeta_eqn",
    "px_beta_eqn", "pz_beta_eqn", "xiv_pxpz_eqn", "pz_varphi_beta_eqn", "px_varphi_beta_eqn",
    "pz_varphi_rx_beta_eqn", "px_varphi_rx_beta_eqn" }

W_define_Fstar_eqns ==
  { "Okubo_Fstar_eqn", "Fstar_eqn" }

\* mutation: the Hamiltonian stage also reassigns the fundamental function
W_define_H_eqns_reassigns_Fstar ==
  { "Fstar_eqn", "H_eqn", "H_varphi_rx_eqn" }

W_define_H_eqns ==
  { "H_eqn", "H_varphi_rx_eqn" }

W_define_rdot_eqns ==
  { "rdotx_rdot_alpha_eqn", "rdotz_rdot_alpha_eqn", "rdotx_pxpz_eqn", "rdotz_pxpz_eqn",
    "rdotz_on_rdotx_eqn", "rdotz_on_rdotx_tanbeta_eqn", "rdot_vec_eqn", "rdot_p_unity_eqn" }

W_define_pdot_eqns ==
  { "pdotx_pxpz_eqn", "pdotz_pxpz_eqn", "pdot_covec_eqn" }

W_define_Hamiltons_eqns ==
  { "hamiltons_eqns" }

W_define_tanalpha_eqns ==
  { "tanalpha_rdot_eqn", "tanalpha_pxpz_eqn", "tanalpha_beta_eqn" }

W_define_tanbeta_eqns ==
  { "beta_at_alpha_extremum_eqn", "beta_at_alpha_extremum_numerical_eqn", "tanbeta_alpha_eqn" }

W_define_g_eqns ==
  { "gstar_varphi_pxpz_eqn", "det_gstar_varphi_pxpz_eqn", "g_varphi_pxpz_eqn",
    "gstar_eigen_varphi_pxpz", "gstar_eigenvalues", "gstar_eigenvectors" }

W_define_idtx_fgtx_eqns ==
  { "pz_cosbeta_varphi_eqn", "cosbetasqrd_pz_varphi_solns", "cosbetasqrd_pz_varphi_soln",
    "fgtx_cossqrdbeta_pz_varphi_eqn", "fgtx_tanbeta_pz_varphi_eqn", "fgtx_px_pz_varphi_eqn",
    "idtx_rdotx_pz_varphi_eqn", "idtx_rdotz_pz_varphi_eqn" }

W_prep_geodesic_eqns ==
  { "gstar_ij_tanbeta_mat", "g_ij_tanbeta_mat", "tanbeta_poly_eqn", "tanbeta_eqn",
    "gstar_ij_tanalpha_mat", "gstar_ij_mat", "g_ij_tanalpha_mat", "g_ij_mat",
    "g_ij_mat_lambdified", "gstar_ij_mat_lambdified" }

W_define_geodesic_eqns ==
  { "dg_rk_ij_mat", "christoffel_ij_k_rx_rdot_lambda", "christoffel_ij_k_lambda",
    "geodesic_eqns", "vdotx_lambdified", "vdotz_lambdified" }

W_define_px_poly_eqn ==
  { "poly_px_xiv_varphi_eqn", "poly_px_xiv0_eqn" }

W_prep_ibc_eqns ==
  { "pz0_xiv0_eqn", "pzpx_unity_eqn" }

W_define_ibc_eqns ==
  { "boundary_eqns" }

W_set_ibc_eqns ==
  { "rz_initial_eqn", "tanbeta_initial_eqn", "p_initial_eqn", "px_initial_eqn", "pz_initial_eqn" }

EquationNames ==
  W_define_p_eqns \cup W_define_r_eqns \cup W_define_xi_eqns \cup W_define_xi_model_eqn
  \cup W_define_xi_related_eqns \cup W_define_varphi_model_eqn
  \cup W_define_varphi_related_eqns \cup W_define_Fstar_eqns \cup W_define_H_eqns
  \cup W_define_rdot_eqns \cup W_define_pdot_eqns \cup W_define_Hamiltons_eqns
  \cup W_define_tanalpha_eqns \cup W_define_tanbeta_eqns \cup W_define_g_eqns
  \cup W_define_idtx_fgtx_eqns \cup W_prep_geodesic_eqns \cup W_define_geodesic_eqns
  \cup W_define_px_poly_eqn \cup W_prep_ibc_eqns \cup W_define_ibc_eqns
  \cup W_set_ibc_eqns

AllNames ==
  ConfigNames \cup EquationNames

\* mutation: the flow-related stage is called before the flow model stage
StageOrder_varphi_related_first ==
  << "define_p_eqns", "define_r_eqns", "define_xi_eqns", "define_xi_model_eqn",
     "define_xi_related_eqns", "define_varphi_related_eqns",
     "define_varphi_model_eqn", "define_Fstar_eqns", "define_H_eqns",
     "define_rdot_eqns", "define_pdot_eqns", "define_Hamiltons_eqns",
     "define_tanalpha_eqns", "define_tanbeta_eqns", "define_g_eqns",
     "define_idtx_fgtx_eqns", "prep_geodesic_eqns", "define_geodesic_eqns",
     "define_px_poly_eqn", "prep_ibc_eqns", "define_ibc_eqns", "set_ibc_eqns" >>

(***************************************************************************)
(* The constructor's fixed order of derivation stages.                     *)
(***************************************************************************)
StageOrder ==
  << "define_p_eqns", "define_r_eqns", "define_xi_eqns", "define_xi_model_eqn",
     "define_xi_related_eqns", "define_varphi_model_eqn",
     "define_varphi_related_eqns", "define_Fstar_eqns", "define_H_eqns",
     "define_rdot_eqns", "define_pdot_eqns", "define_Hamiltons_eqns",
     "define_tanalpha_eqns", "define_tanbeta_eqns", "define_g_eqns",
     "define_idtx_fgtx_eqns", "prep_geodesic_eqns", "define_geodesic_eqns",
     "define_px_poly_eqn", "prep_ibc_eqns", "define_ibc_eqns", "set_ibc_eqns" >>

Stages ==
  { StageOrder[i] : i \in 1..Len(StageOrder) }

\* position of a stage in the constructor; the prologue of __init__ is 0,
\* and -1 stands for 'no code of the constructor has run'
StageIndex(s) ==
  IF s = "none" THEN -1
  ELSE IF s = "__init__" THEN 0
  ELSE CHOOSE i \in 1..Len(StageOrder) : StageOrder[i] = s

VARIABLES
  args,         \* the constructor's arguments
  conf,         \* the instance's configuration attributes (self.eta, ...)
  store,        \* the instance's equation attributes: name -> value
  eta_dbldenom, \* the integer recorded in self.eta_dbldenom (0: not set)
  pc,           \* "new", the stage about to run, "done" or "failed"
  exc,          \* the exception that ended construction, or "none"
  diag,         \* the diagnostics printed so far
  probed,       \* the probe points consulted by find_cosbetasqrd_root
  writer,       \* name -> the stage that assigned it ("none": nobody yet)
  last,         \* the stage that ran last
  rd,           \* the attributes the last stage read and had not itself written
  ran,          \* the stages executed so far, in execution order
  hamiltons_eqns, \* the rows of the Matrix self.hamiltons_eqns (<< >>: not set)
  other,        \* the second instance while the first one is executing (and back)
  cur,          \* the instance that is executing: 1 or 2
  ramp_args,    \* the point at which the ramp closure is evaluated
  varphi_r,     \* the value of the ramp closure there (<< >>: not evaluated)
  cosbetasqrd_pz_varphi_solns, \* the roots returned by solve() for cos(beta)**2
  selected,      \* the probes consulted and the root selected among them
  tanbeta_alpha_solns, \* the roots returned by solve() for tan(beta)
  tanbeta_alpha_soln, \* the root tanbeta_alpha_eqn is built from
  alpha_extrema_solns, \* the stationary points returned by solve() for beta
  beta_at_alpha_extremum_soln, \* what the extremal-angle derivation recorded
  gstar_ij_mat, \* the entries of the co-metric self.gstar_ij_mat at a point
  dg_rk_ij_mat, \* the derivatives of g_ij_mat there: [k][i][j] is d g[i,j] / d r^k
  rdot, \* the velocity (rdotx, rdotz) there
  christoffel_call, \* a call of christoffel_ij_k_lambda and what it returned
  vdot, \* the right-hand sides of vdotx, vdotz in geodesic_eqns (<< >>: not built)
  px_poly_args, \* the receiver's eta, the eta_choice argument and the flow closure of one define_px_poly_eqn call
  px_poly \* the two attributes that call assigns

vars ==
  << args, conf, store, eta_dbldenom, pc, exc, diag, probed, writer, last, rd,
     ran, hamiltons_eqns, other, cur, ramp_args, varphi_r,
     cosbetasqrd_pz_varphi_solns, selected,
     tanbeta_alpha_solns, tanbeta_alpha_soln,
     alpha_extrema_solns, beta_at_alpha_extremum_soln,
     gstar_ij_mat, dg_rk_ij_mat, rdot, christoffel_call, vdot,
     px_poly_args, px_poly >>

\* the variables that belong to a second instance
second ==
  << other, cur >>

\* the attributes and constructor position of one instance
instance ==
  << args, conf, store, eta_dbldenom, pc, exc, diag, probed, writer, last, rd,
     ran, hamiltons_eqns >>

ramp_vars ==
  << ramp_args, varphi_r >>

cosbetasqrd_vars ==
  << cosbetasqrd_pz_varphi_solns, selected >>

tanbeta_vars ==
  << tanbeta_alpha_solns, tanbeta_alpha_soln >>

extremum_vars ==
  << alpha_extrema_solns, beta_at_alpha_extremum_soln >>

geodesic_vars ==
  << gstar_ij_mat, dg_rk_ij_mat, rdot, christoffel_call, vdot >>

px_poly_vars ==
  << px_poly_args, px_poly >>

\* the variables on which single methods and closed forms are evaluated
pure ==
  << ramp_vars, cosbetasqrd_vars, tanbeta_vars, extremum_vars, geodesic_vars, px_poly_vars >>

\* every such variable outside group g keeps its value
PureUnchangedExcept(g) ==
  /\ IF g = "ramp" THEN TRUE ELSE UNCHANGED ramp_vars
  /\ IF g = "cosbetasqrd" THEN TRUE ELSE UNCHANGED cosbetasqrd_vars
  /\ IF g = "tanbeta" THEN TRUE ELSE UNCHANGED tanbeta_vars
  /\ IF g = "extremum" THEN TRUE ELSE UNCHANGED extremum_vars
  /\ IF g = "geodesic" THEN TRUE ELSE UNCHANGED geodesic_vars
  /\ IF g = "px_poly" THEN TRUE ELSE UNCHANGED px_poly_vars

\* values of a store entry
IsAvailable(v) ==
  v \notin { "absent", "None" }

\* mutation: the indicatrix stage is guarded by the geodesic flag
StageRequested_idtx_by_do_geodesic(s) ==
  CASE s = "define_idtx_fgtx_eqns" -> args.do_geodesic
    [] s \in { "prep_geodesic_eqns", "define_geodesic_eqns" } -> args.do_geodesic
    [] OTHER -> TRUE

\* the optional stages are guarded by the constructor's flags (lines 112-115)
StageRequested(s) ==
  CASE s = "define_idtx_fgtx_eqns" -> args.do_idtx
    [] s \in { "prep_geodesic_eqns", "define_geodesic_eqns" } -> args.do_geodesic
    [] OTHER -> TRUE

\* the stage the constructor calls after stage s, or "done"
NextStage(s) ==
  LET later == { j \in (StageIndex(s) + 1)..Len(StageOrder) :
                   StageRequested(StageOrder[j]) }
  IN  IF later = {} THEN "done"
      ELSE StageOrder[CHOOSE j \in later : \A k \in later : j <= k]

GeodesicParameters_as_passed ==
  args.parameters

\* the parameters argument the constructor hands to both geodesic stages
GeodesicParameters ==
  IF ~args.do_raw THEN args.parameters ELSE "None"

Eqns(S) ==
  [ n \in S |-> "eqn" ]

Nones(S) ==
  [ n \in S |-> "None" ]

\* mutation: the equations are kept in a class attribute that all instances share
Finish_shared_store(s, reads, wr, msgs, e) ==
  /\ pc = s
  /\ store' = [ n \in EquationNames |-> IF n \in DOMAIN wr THEN wr[n] ELSE store[n] ]
  /\ writer' = [ n \in AllNames |-> IF n \in DOMAIN wr THEN s ELSE writer[n] ]
  /\ rd' = reads
  /\ last' = s
  /\ ran' = Append(ran, s)
  /\ diag' = diag \cup msgs
  /\ exc' = e
  /\ pc' = IF e = "none" THEN NextStage(s) ELSE "failed"
  /\ other' = [ other EXCEPT !.store = [ n \in EquationNames |->
                   IF n \in DOMAIN wr THEN wr[n] ELSE other.store[n] ] ]
  /\ UNCHANGED << args, conf, cur, pure >>

\* mutation: define_px_poly_eqn stores its local eta_ in self.eta
Finish_px_poly_stores_eta(s, reads, wr, msgs, e) ==
  /\ pc = s
  /\ store' = [ n \in EquationNames |-> IF n \in DOMAIN wr THEN wr[n] ELSE store[n] ]
  /\ writer' = [ n \in AllNames |-> IF n \in DOMAIN wr THEN s ELSE writer[n] ]
  /\ rd' = reads
  /\ last' = s
  /\ ran' = Append(ran, s)
  /\ diag' = diag \cup msgs
  /\ exc' = e
  /\ pc' = IF e = "none" THEN NextStage(s) ELSE "failed"
  /\ conf' = IF s = "define_px_poly_eqn" THEN [ conf EXCEPT !.eta = << 1, 1 >> ]
             ELSE conf
  /\ UNCHANGED << args, second, pure >>

\* a stage ends: wr are its assignments to self (last assignment per name),
\* reads its reads of attributes it did not assign itself, msgs what it
\* printed, e the exception it raised ("none": it returned)
Finish(s, reads, wr, msgs, e) ==
  /\ pc = s
  /\ store' = [ n \in EquationNames |-> IF n \in DOMAIN wr THEN wr[n] ELSE store[n] ]
  /\ writer' = [ n \in AllNames |-> IF n \in DOMAIN wr THEN s ELSE writer[n] ]
  /\ rd' = reads
  /\ last' = s
  /\ ran' = Append(ran, s)
  /\ diag' = diag \cup msgs
  /\ exc' = e
  /\ pc' = IF e = "none" THEN NextStage(s) ELSE "failed"
  /\ UNCHANGED << args, conf, second, pure >>

\* the constructor's default arguments (lines 65-67)
DefaultArgs ==
  [ parameters |-> "None", eta |-> << 3, 2 >>, mu |-> << 3, 4 >>, beta_type |-> "sin",
    varphi_type |-> "ramp", ibc_type |-> "convex-up", do_raw |-> FALSE,
    do_idtx |-> FALSE, do_geodesic |-> FALSE, do_nothing |-> FALSE ]

\* no second instance exists
NoInstance ==
  [ pc |-> "absent" ]

\* no root selection has taken place
NotSelected ==
  [ probes |-> << >>, root |-> 0, exc |-> "none", wr |-> << >> ]

\* no root of the tan(alpha)-tan(beta) relation has been selected
NotInverted ==
  [ root |-> 0, exc |-> "none", v |-> "absent" ]

TanbetaIdle ==
  /\ tanbeta_alpha_solns = << >>
  /\ tanbeta_alpha_soln = NotInverted

\* the extremal-angle derivation has not run
NoExtremum ==
  [ root |-> -1, v |-> "absent", msgs |-> {} ]

ExtremumIdle ==
  /\ alpha_extrema_solns = << >>
  /\ beta_at_alpha_extremum_soln = NoExtremum

\* christoffel_ij_k_lambda has not been called
NoCall ==
  [ indices |-> << >>, returned |-> << >>, symbolic |-> 0 ]

GeodesicIdle ==
  /\ gstar_ij_mat = << >>
  /\ dg_rk_ij_mat = << >>
  /\ rdot = << >>
  /\ christoffel_call = NoCall
  /\ vdot = << >>

\* eta_choice=None, the default of define_px_poly_eqn (line 977)
NoChoice ==
  << >>

\* define_px_poly_eqn has not assigned its attributes
NoPoly ==
  [ poly_px_xiv_varphi_eqn |-> "absent", poly_px_xiv0_eqn |-> "absent" ]

PxPolyIdle ==
  /\ px_poly_args = [ eta |-> << 1, 2 >>, eta_choice |-> NoChoice,
                      varphi_rx_eqn |-> "varphi_model_ramp_eqn" ]
  /\ px_poly = NoPoly

RampIdle ==
  /\ ramp_args = [ varphi_0 |-> 1, varepsilon |-> << 0, 1 >>, x_1 |-> 1,
                   mu |-> << 1, 2 >>, rx |-> 0 ]
  /\ varphi_r = << >>

CosbetasqrdIdle ==
  /\ cosbetasqrd_pz_varphi_solns = << >>
  /\ selected = NotSelected

\* nothing is being evaluated outside group g
PureIdleExcept(g) ==
  /\ IF g = "ramp" THEN TRUE ELSE RampIdle
  /\ IF g = "cosbetasqrd" THEN TRUE ELSE CosbetasqrdIdle
  /\ IF g = "tanbeta" THEN TRUE ELSE TanbetaIdle
  /\ IF g = "extremum" THEN TRUE ELSE ExtremumIdle
  /\ IF g = "geodesic" THEN TRUE ELSE GeodesicIdle
  /\ IF g = "px_poly" THEN TRUE ELSE PxPolyIdle

\* nothing is being evaluated outside the constructor
PureIdle ==
  PureIdleExcept("none")

\* an instance about to be constructed with arguments drawn from A
InitInstance(A) ==
  /\ args \in A
  /\ conf = [ n \in {} |-> "absent" ]
  /\ store = [ n \in EquationNames |-> "absent" ]
  /\ eta_dbldenom = 0
  /\ pc = "new"
  /\ exc = "none"
  /\ diag = {}
  /\ probed = << >>
  /\ writer = [ n \in AllNames |-> "none" ]
  /\ last = "none"
  /\ rd = {}
  /\ ran = << >>
  /\ hamiltons_eqns = << >>

Init ==
  /\ InitInstance(Args)
  /\ other = NoInstance
  /\ cur = 1
  /\ PureIdle

\* mutation: the constructor runs the pipeline whatever do_nothing says
Construct_ignores_do_nothing ==
  /\ pc = "new"
  /\ conf' = [ eta |-> args.eta, mu |-> args.mu, do_raw |-> args.do_raw,
               ibc_type |-> args.ibc_type, beta_type |-> args.beta_type,
               varphi_type |-> args.varphi_type ]
  /\ writer' = [ n \in AllNames |-> IF n \in ConfigNames THEN "__init__" ELSE writer[n] ]
  /\ last' = "__init__"
  /\ pc' = NextStage("__init__")
  /\ UNCHANGED << args, store, eta_dbldenom, exc, diag, probed, rd, ran, hamiltons_eqns >>
  /\ UNCHANGED << second, pure >>

\* lines 89-95: store the configuration, return at once under do_nothing
Construct ==
  /\ pc = "new"
  /\ conf' = [ eta |-> args.eta, mu |-> args.mu, do_raw |-> args.do_raw,
               ibc_type |-> args.ibc_type, beta_type |-> args.beta_type,
               varphi_type |-> args.varphi_type ]
  /\ writer' = [ n \in AllNames |-> IF n \in ConfigNames THEN "__init__" ELSE writer[n] ]
  /\ last' = "__init__"
  /\ pc' = IF args.do_nothing THEN "done" ELSE NextStage("__init__")
  /\ UNCHANGED << args, store, eta_dbldenom, exc, diag, probed, rd, ran, hamiltons_eqns >>
  /\ UNCHANGED << second, pure >>

define_p_eqns ==
  /\ pc = "define_p_eqns"
  /\ Finish("define_p_eqns", {}, Eqns(W_define_p_eqns), {}, "none")
  /\ UNCHANGED << eta_dbldenom, probed, hamiltons_eqns >>

define_r_eqns ==
  /\ pc = "define_r_eqns"
  /\ Finish("define_r_eqns", {}, Eqns(W_define_r_eqns), {}, "none")
  /\ UNCHANGED << eta_dbldenom, probed, hamiltons_eqns >>

define_xi_eqns ==
  /\ pc = "define_xi_eqns"
  /\ Finish("define_xi_eqns", {}, Eqns(W_define_xi_eqns), {}, "none")
  /\ UNCHANGED << eta_dbldenom, probed, hamiltons_eqns >>

\* self.eta is substituted unless do_raw
xi_model_sine_unless_tan(c) ==
  IF c.beta_type = "tan" THEN "xi_model_tan" ELSE "xi_model_sin"

\* lines 213-216: varphi_r*abs(sin(beta))**eta for 'sin', and
\* varphi_r*abs(tan(beta))**eta in the else branch
xi_model(c) ==
  IF c.beta_type = "sin" THEN "xi_model_sin" ELSE "xi_model_tan"

define_xi_model_eqn ==
  /\ pc = "define_xi_model_eqn"
  /\ Finish("define_xi_model_eqn",
            { "beta_type", "do_raw" } \cup (IF conf.do_raw THEN {} ELSE { "eta" }),
            [ n \in W_define_xi_model_eqn |-> xi_model(conf) ], {}, "none")
  /\ UNCHANGED << eta_dbldenom, probed, hamiltons_eqns >>

define_xi_related_eqns ==
  /\ pc = "define_xi_related_eqns"
  /\ Finish("define_xi_related_eqns",
            { "eta", "xi_varphi_beta_eqn", "tanbeta_pxpz_eqn", "cosbeta_pxpz_eqn",
              "sinbeta_pxpz_eqn", "pz_xiv_eqn" },
            Eqns(W_define_xi_related_eqns), {}, "none")
  /\ eta_dbldenom' = 2 * denom(conf.eta)
  /\ UNCHANGED << probed, hamiltons_eqns >>

\* mutation: an unknown flow model falls back to the ramp closure
varphi_model_eqn_default_ramp(c) ==
  IF c.varphi_type = "ramp-flat"
  THEN IF c.mu = << 1, 2 >> THEN "varphi_model_rampflat_eqn"
       ELSE "varphi_model_rampflatmu_eqn"
  ELSE "varphi_model_ramp_eqn"

\* mutation: the ramp-flat closure is chosen without looking at mu
varphi_model_eqn_mu_ignored(c) ==
  IF c.varphi_type = "ramp" THEN "varphi_model_ramp_eqn"
  ELSE IF c.varphi_type = "ramp-flat" THEN "varphi_model_rampflat_eqn"
       ELSE "ValueError"

\* the closure selected by lines 293-301; "ValueError" when none is
varphi_model_eqn(c) ==
  IF c.varphi_type = "ramp" THEN "varphi_model_ramp_eqn"
  ELSE IF c.varphi_type = "ramp-flat"
       THEN IF c.mu = << 1, 2 >> THEN "varphi_model_rampflat_eqn"
            ELSE "varphi_model_rampflatmu_eqn"
       ELSE "ValueError"

define_varphi_model_eqn ==
  /\ pc = "define_varphi_model_eqn"
  /\ LET models == W_define_varphi_model_eqn \ { "varphi_rx_eqn" }
         chosen == varphi_model_eqn(conf)
         reads == { "varphi_type" } \cup
                  (IF conf.varphi_type = "ramp-flat" THEN { "mu" } ELSE {})
     IN  /\ IF chosen = "ValueError"
            THEN Finish("define_varphi_model_eqn", reads, Eqns(models), {}, "ValueError")
            ELSE Finish("define_varphi_model_eqn", reads,
                        Eqns(models) @@ [ n \in { "varphi_rx_eqn" } |-> chosen ],
                        {}, "none")
         /\ UNCHANGED << eta_dbldenom, probed, hamiltons_eqns >>

define_varphi_related_eqns ==
  /\ pc = "define_varphi_related_eqns"
  /\ Finish("define_varphi_related_eqns",
            { "p_xi_eqn", "xi_varphi_beta_eqn", "tanbeta_pxpz_eqn", "sinbeta_pxpz_eqn",
              "p_norm_pxpz_eqn", "varphi_rx_eqn", "pz_px_tanbeta_eqn", "xi_p_eqn",
              "p_pz_cosbeta_eqn" },
            Eqns(W_define_varphi_related_eqns), {}, "none")
  /\ UNCHANGED << eta_dbldenom, probed, hamiltons_eqns >>

define_Fstar_eqns ==
  /\ pc = "define_Fstar_eqns"
  /\ Finish("define_Fstar_eqns", { "p_norm_pxpz_eqn", "p_varphi_pxpz_eqn" },
            Eqns(W_define_Fstar_eqns), {}, "none")
  /\ UNCHANGED << eta_dbldenom, probed, hamiltons_eqns >>

define_H_eqns ==
  /\ pc = "define_H_eqns"
  /\ Finish("define_H_eqns", { "Fstar_eqn", "varphi_rx_eqn" },
            Eqns(W_define_H_eqns), {}, "none")
  /\ UNCHANGED << eta_dbldenom, probed, hamiltons_eqns >>

define_rdot_eqns ==
  /\ pc = "define_rdot_eqns"
  /\ Finish("define_rdot_eqns", { "H_eqn", "px_pz_tanbeta_eqn" },
            Eqns(W_define_rdot_eqns), {}, "none")
  /\ UNCHANGED << eta_dbldenom, probed, hamiltons_eqns >>

\* a product of expressions: SymPy evaluates a product with a factor 0 to 0
Mul(factors) ==
  IF \E i \in DOMAIN factors : factors[i] = "0" THEN "0" ELSE "expr"

\* Eq(lhs, rhs): "eqn_zero" is an equation whose right-hand side is 0
Eq(rhs) ==
  IF rhs = "0" THEN "eqn_zero" ELSE "eqn"

\* mutation: the right-hand side of line 462 without its leading factor 0
pdotz_rhs_without_zero ==
  Mul(<< "expr", "expr", "expr", "expr" >>)

\* line 462: 0*diff(varphi_rx_eqn.rhs,rx)*(-tanbeta_pxpz_eqn.rhs)*H_eqn.rhs/varphi_r
pdotz_rhs ==
  Mul(<< "0", "expr", "expr", "expr", "expr" >>)

define_pdot_eqns ==
  /\ pc = "define_pdot_eqns"
  /\ Finish("define_pdot_eqns",
            { "H_varphi_rx_eqn", "varphi_rx_eqn", "tanbeta_pxpz_eqn", "H_eqn" },
            Eqns(W_define_pdot_eqns \ { "pdotz_pxpz_eqn" })
              @@ [ n \in { "pdotz_pxpz_eqn" } |-> Eq(pdotz_rhs) ],
            {}, "none")
  /\ UNCHANGED << eta_dbldenom, probed, hamiltons_eqns >>

\* lines 483-488: the four rows, each the stored equation after substitution,
\* simplify and factor, which keep a zero right-hand side zero
hamiltons_rows(st) ==
  << st["rdotx_pxpz_eqn"], st["rdotz_pxpz_eqn"], st["pdotx_pxpz_eqn"],
     st["pdotz_pxpz_eqn"] >>

define_Hamiltons_eqns ==
  /\ pc = "define_Hamiltons_eqns"
  /\ Finish("define_Hamiltons_eqns",
            { "rdotx_pxpz_eqn", "varphi_rx_eqn", "rdotz_pxpz_eqn", "pdotx_pxpz_eqn",
              "pdotz_pxpz_eqn" },
            Eqns(W_define_Hamiltons_eqns), {}, "none")
  /\ hamiltons_eqns' = hamiltons_rows(store)
  /\ UNCHANGED << eta_dbldenom, probed >>

define_tanalpha_eqns ==
  /\ pc = "define_tanalpha_eqns"
  /\ Finish("define_tanalpha_eqns",
            { "rdotz_rdot_alpha_eqn", "rdotx_rdot_alpha_eqn", "rdotz_on_rdotx_eqn",
              "rdotz_on_rdotx_tanbeta_eqn" },
            Eqns(W_define_tanalpha_eqns), {}, "none")
  /\ UNCHANGED << eta_dbldenom, probed, hamiltons_eqns >>

(***************************************************************************)
(* Solver results.  A list returned by solve() is a sequence of            *)
(* candidates; each candidate carries the outcome of the numeric tests     *)
(* the code applies to it.                                                 *)
(***************************************************************************)
CandSeqs(S) ==
  UNION { [ 1..k -> S ] : k \in 0..MaxRoots }

IsTrue(b) ==
  b

\* line 537-538: the extrema that are real and positive under eta_sub
alpha_extrema_real_positive(alpha_extrema) ==
  SelectSeq(alpha_extrema, IsTrue)

\* mutation: a root must be real at all three probes
RealAtAllProbes(soln) ==
  soln.at0 /\ soln.at001 /\ soln.at1

\* line 556: imaginary part zero at tan(alpha) = 0, 0.01 or 1
RealAtSomeProbe(soln) ==
  soln.at0 \/ soln.at001 \/ soln.at1

tanbeta_real_solns(solns) ==
  SelectSeq(solns, RealAtSomeProbe)

TanbetaCandidates ==
  [ at0 : BOOLEAN, at001 : BOOLEAN, at1 : BOOLEAN ]

\* mutation: the exclusion tests the tangent model instead of the sine model
tanbeta_skipped_tan(c) ==
  IsOne(c.eta) /\ c.beta_type = "tan"

\* lines 550-552: the sine model with eta = 1 has no tan(beta) inversion
tanbeta_skipped(c) ==
  IsOne(c.eta) /\ c.beta_type = "sin"

\* lines 555-557: tanbeta_alpha_eqn is built from element [0] of the list of
\* real roots; on an empty list [0] raises and the None of line 533 stays
tanbeta_alpha_eqn(found) ==
  IF found THEN [ exc |-> "none", v |-> "eqn" ]
  ELSE [ exc |-> "IndexError", v |-> "None" ]

\* lines 535-548: the value stored for the extremal angle and what is printed
beta_at_alpha_extremum(alpha_extrema) ==
  IF alpha_extrema_real_positive(alpha_extrema) # << >>
  THEN [ v |-> "eqn", msgs |-> {} ]
  ELSE IF alpha_extrema # << >>
       THEN [ v |-> "eqn",
              msgs |-> { "Warning: real positive root for beta not found" } ]
       ELSE [ v |-> "eqn_zero", msgs |-> {} ]

define_tanbeta_eqns ==
  /\ pc = "define_tanbeta_eqns"
  /\ \E extremum \in { beta_at_alpha_extremum(a) : a \in CandSeqs(BOOLEAN) },
        found \in { tanbeta_real_solns(solns) # << >> :
                      solns \in CandSeqs(TanbetaCandidates) } :
       LET reads == { "eta", "tanalpha_beta_eqn", "beta_type" }
           extrema_wr ==
             [ n \in { "beta_at_alpha_extremum_eqn",
                       "beta_at_alpha_extremum_numerical_eqn" } |-> extremum.v ]
           none_wr == Nones({ "tanbeta_alpha_eqn" })
       IN  /\ IF tanbeta_skipped(conf)
              THEN Finish("define_tanbeta_eqns", reads, extrema_wr @@ none_wr,
                          extremum.msgs \cup
                            { "Cannot compute all beta equations for sin(beta) model and eta=1" },
                          "none")
              ELSE Finish("define_tanbeta_eqns", reads,
                          extrema_wr @@ [ n \in { "tanbeta_alpha_eqn" } |->
                                            tanbeta_alpha_eqn(found).v ],
                          extremum.msgs, tanbeta_alpha_eqn(found).exc)
           /\ UNCHANGED << eta_dbldenom, probed, hamiltons_eqns >>

\* mutation: the exclusion is widened from eta = 1 to eta >= 1
g_skipped_geq1(c) ==
  Geq1(c.eta) /\ c.beta_type = "sin"

\* lines 618-620: the sine model with eta = 1 has no primal metric
g_skipped(c) ==
  IsOne(c.eta) /\ c.beta_type = "sin"

define_g_eqns ==
  /\ pc = "define_g_eqns"
  /\ LET dual == { "gstar_varphi_pxpz_eqn", "det_gstar_varphi_pxpz_eqn" }
         rest == W_define_g_eqns \ dual
         reads == { "eta", "rdot_vec_eqn", "p_covec_eqn", "beta_type" }
     IN  /\ IF g_skipped(conf)
            THEN Finish("define_g_eqns", reads, Eqns(dual) @@ Nones(rest),
                        { "Cannot compute all metric tensor equations for sin(beta) model and eta=1" },
                        "none")
            ELSE Finish("define_g_eqns", reads \cup { "varphi_rx_eqn" },
                        Eqns(W_define_g_eqns), {}, "none")
         /\ UNCHANGED << eta_dbldenom, probed, hamiltons_eqns >>

\* mutation: the indicatrix stage also applies the sine, eta >= 1 exclusion
idtx_skipped_sine_geq1(c) ==
  \/ (c.eta = << 1, 4 >> \/ c.eta = << 3, 2 >>) /\ c.beta_type = "tan"
  \/ Geq1(c.eta) /\ c.beta_type = "sin"

\* mutation: the exclusion forgets eta = 1/4
idtx_skipped_only_3_2(c) ==
  c.eta = << 3, 2 >> /\ c.beta_type = "tan"

\* lines 724-727: the only exclusion the indicatrix stage applies
idtx_skipped(c) ==
  (c.eta = << 1, 4 >> \/ c.eta = << 3, 2 >>) /\ c.beta_type = "tan"

\* a cos^2(beta) candidate: admissible at the primary and at the fallback probe
CosbetasqrdCandidates ==
  [ primary : BOOLEAN, fallback : BOOLEAN ]

AdmissibleAtPrimary(soln) ==
  soln.primary

AdmissibleAtFallback(soln) ==
  soln.fallback

\* lines 728-731 applied to the probe {varphi:1, pz:-0.01} or {varphi:10, pz:-0.5}
find_cosbetasqrd_root(solns, probe) ==
  IF probe = "primary" THEN SelectSeq(solns, AdmissibleAtPrimary)
  ELSE SelectSeq(solns, AdmissibleAtFallback)

\* mutation: the probe {varphi:10, pz:-0.5} is consulted first
cosbetasqrd_pz_varphi_soln_fallback_first(solns) ==
  LET first == find_cosbetasqrd_root(solns, "fallback")
  IN  IF first # << >>
      THEN [ probes |-> << "fallback" >>, soln |-> first ]
      ELSE [ probes |-> << "fallback", "primary" >>,
             soln |-> find_cosbetasqrd_root(solns, "primary") ]

\* lines 732-734: the probes consulted, in order, and the list selected
cosbetasqrd_pz_varphi_soln(solns) ==
  LET first == find_cosbetasqrd_root(solns, "primary")
  IN  IF first # << >>
      THEN [ probes |-> << "primary" >>, soln |-> first ]
      ELSE [ probes |-> << "primary", "fallback" >>,
             soln |-> find_cosbetasqrd_root(solns, "fallback") ]

\* mutation: line 735 with a default instead of [0] on an empty list
fgtx_from_root_silent(found) ==
  [ exc |-> "none", wr |-> Eqns(W_define_idtx_fgtx_eqns) ]

\* lines 715-746 once the list of admissible roots is known: what the stage
\* has assigned when it ends and the exception raised by [0] at line 735
fgtx_from_root(found) ==
  IF ~found
  THEN [ exc |-> "IndexError",
         wr |-> Eqns({ "pz_cosbeta_varphi_eqn", "cosbetasqrd_pz_varphi_solns" })
                  @@ [ n \in { "cosbetasqrd_pz_varphi_soln" } |-> "empty_list" ]
                  @@ Nones(W_define_idtx_fgtx_eqns) ]
  ELSE [ exc |-> "none", wr |-> Eqns(W_define_idtx_fgtx_eqns) ]

define_idtx_fgtx_eqns ==
  /\ pc = "define_idtx_fgtx_eqns"
  /\ \E sel \in { [ probes |-> cosbetasqrd_pz_varphi_soln(solns).probes,
                     found |-> cosbetasqrd_pz_varphi_soln(solns).soln # << >> ] :
                   solns \in CandSeqs(CosbetasqrdCandidates) } :
       LET s == "define_idtx_fgtx_eqns"
           reads == { "eta", "pz_p_beta_eqn", "p_varphi_beta_eqn", "eta_dbldenom",
                      "beta_type" }
           solved == { "pz_cosbeta_varphi_eqn", "cosbetasqrd_pz_varphi_solns" }
           rest == W_define_idtx_fgtx_eqns \ solved
       IN  IF idtx_skipped(conf)
           THEN /\ Finish(s, reads, Eqns(solved) @@ Nones(rest),
                          { "Cannot compute all indicatrix equations for tan(beta) model and eta" },
                          "none")
                /\ UNCHANGED << eta_dbldenom, probed, hamiltons_eqns >>
           ELSE /\ probed' = sel.probes
                /\ UNCHANGED << eta_dbldenom, hamiltons_eqns >>
                /\ Finish(s,
                          reads \cup (IF sel.found THEN { "gstar_varphi_pxpz_eqn" }
                                      ELSE {}),
                          fgtx_from_root(sel.found).wr, {},
                          fgtx_from_root(sel.found).exc)

\* mutation: the exclusion is narrowed from eta >= 1 to eta = 1
geodesic_skipped_eq1(c) ==
  IsOne(c.eta) /\ c.beta_type = "sin"

\* lines 815 and 928: the exclusion both geodesic stages apply
geodesic_skipped(c) ==
  Geq1(c.eta) /\ c.beta_type = "sin"

\* .subs(parameters) at lines 872 and 882 raises when parameters is None:
\* ValueError from Basic.subs, TypeError from newer Matrix.subs
SubsNoneErrors ==
  { "ValueError", "TypeError" }

prep_geodesic_eqns ==
  /\ pc = "prep_geodesic_eqns"
  /\ LET s == "prep_geodesic_eqns"
         parameters == GeodesicParameters
         before_subs == { "gstar_ij_tanbeta_mat", "g_ij_tanbeta_mat", "tanbeta_poly_eqn",
                          "tanbeta_eqn", "gstar_ij_tanalpha_mat" }
         reads == { "eta", "beta_type", "mu", "H_eqn", "px_pz_tanbeta_eqn",
                    "tanalpha_beta_eqn", "varphi_rx_eqn" }
     IN  /\ IF geodesic_skipped(conf)
            THEN Finish(s, { "eta", "beta_type" }, Nones(W_prep_geodesic_eqns),
                        { "Cannot compute geodesic equations for sin(beta) model and eta>=1" },
                        "none")
            ELSE IF parameters = "None"
                 THEN \E e \in SubsNoneErrors :
                        Finish(s, reads,
                               Eqns(before_subs) @@ Nones(W_prep_geodesic_eqns \ before_subs),
                               {}, e)
                 ELSE Finish(s, reads, Eqns(W_prep_geodesic_eqns), {}, "none")
         /\ UNCHANGED << eta_dbldenom, probed, hamiltons_eqns >>

define_geodesic_eqns_unguarded ==
  /\ pc = "define_geodesic_eqns"
  /\ Finish("define_geodesic_eqns", { "eta", "beta_type", "gstar_ij_mat", "g_ij_mat" },
            Eqns(W_define_geodesic_eqns), {}, "none")
  /\ UNCHANGED << eta_dbldenom, probed, hamiltons_eqns >>

define_geodesic_eqns ==
  /\ pc = "define_geodesic_eqns"
  /\ LET s == "define_geodesic_eqns"
     IN  /\ IF geodesic_skipped(conf)
            THEN Finish(s, { "eta", "beta_type" }, Nones(W_define_geodesic_eqns),
                        { "Cannot compute geodesic equations for sin(beta) model and eta>=1" },
                        "none")
            ELSE Finish(s, { "eta", "beta_type", "gstar_ij_mat", "g_ij_mat" },
                        Eqns(W_define_geodesic_eqns), {}, "none")
         /\ UNCHANGED << eta_dbldenom, probed, hamiltons_eqns >>

\* lines 1004-1007: the extraction branch, by the configured eta
poly_px_xiv_varphi_eqn(eta_) ==
  IF Leq1(eta_) THEN "poly_direct" ELSE "poly_numer"

eta_from_receiver(self_eta, eta_choice) ==
  self_eta

\* lines 999-1002: eta_ is eta_choice when one is passed, self.eta otherwise
eta_from_choice(self_eta, eta_choice) ==
  IF eta_choice = NoChoice THEN self_eta ELSE eta_choice

\* lines 1008-1009: Eq(poly.subs(e2d(varphi_rx_eqn)).subs({xiv:xiv_0}), 0)
poly_px_xiv0_eqn(poly_, varphi_rx_eqn) ==
  [ lhs |-> [ poly |-> poly_, varphi_r |-> varphi_rx_eqn, xiv |-> "xiv_0" ], rhs |-> 0 ]

define_px_poly_eqn ==
  /\ pc = "define_px_poly_eqn"
  /\ Finish("define_px_poly_eqn", { "eta", "px_xiv_varphi_eqn", "varphi_rx_eqn" },
            [ n \in { "poly_px_xiv_varphi_eqn" } |->
                poly_px_xiv_varphi_eqn(eta_from_choice(conf.eta, NoChoice)) ]
              @@ Eqns({ "poly_px_xiv0_eqn" }),
            {}, "none")
  /\ UNCHANGED << eta_dbldenom, probed, hamiltons_eqns >>

prep_ibc_eqns ==
  /\ pc = "prep_ibc_eqns"
  /\ Finish("prep_ibc_eqns", { "rdot_p_unity_eqn", "rdotx_pxpz_eqn", "rdotz_pxpz_eqn" },
            Eqns(W_prep_ibc_eqns), {}, "none")
  /\ UNCHANGED << eta_dbldenom, probed, hamiltons_eqns >>

\* the keys of the boundary_eqns dict
\* mutation: a fourth profile is accepted
BoundaryProfiles_with_linear ==
  { "planar", "convex-up", "concave-up", "linear" }

BoundaryProfiles ==
  { "planar", "convex-up", "concave-up" }

define_ibc_eqns ==
  /\ pc = "define_ibc_eqns"
  /\ Finish("define_ibc_eqns", {}, Eqns(W_define_ibc_eqns), {}, "none")
  /\ UNCHANGED << eta_dbldenom, probed, hamiltons_eqns >>

\* line 1084 looks the profile up in boundary_eqns: KeyError when unknown
set_ibc_eqns ==
  /\ pc = "set_ibc_eqns"
  /\ IF conf.ibc_type \in BoundaryProfiles
     THEN Finish("set_ibc_eqns",
                 { "ibc_type", "boundary_eqns", "p_varphi_beta_eqn", "varphi_rx_eqn" },
                 Eqns(W_set_ibc_eqns), {}, "none")
     ELSE Finish("set_ibc_eqns", { "ibc_type", "boundary_eqns" },
                 [ n \in {} |-> "absent" ], {}, "KeyError")
  /\ UNCHANGED << eta_dbldenom, probed, hamiltons_eqns >>

Next ==
  \/ Construct
  \/ define_p_eqns
  \/ define_r_eqns
  \/ define_xi_eqns
  \/ define_xi_model_eqn
  \/ define_xi_related_eqns
  \/ define_varphi_model_eqn
  \/ define_varphi_related_eqns
  \/ define_Fstar_eqns
  \/ define_H_eqns
  \/ define_rdot_eqns
  \/ define_pdot_eqns
  \/ define_Hamiltons_eqns
  \/ define_tanalpha_eqns
  \/ define_tanbeta_eqns
  \/ define_g_eqns
  \/ define_idtx_fgtx_eqns
  \/ prep_geodesic_eqns
  \/ define_geodesic_eqns
  \/ define_px_poly_eqn
  \/ prep_ibc_eqns
  \/ define_ibc_eqns
  \/ set_ibc_eqns

Spec ==
  Init /\ [][Next]_vars

TypeOK ==
  /\ args \in Args
  /\ pc \in Stages \cup { "new", "done", "failed" }
  /\ \A n \in EquationNames : store[n] \in
       { "absent", "None", "eqn", "eqn_zero", "empty_list", "poly_direct", "poly_numer",
         "xi_model_sin", "xi_model_tan", "varphi_model_ramp_eqn", "varphi_model_rampflat_eqn",
         "varphi_model_rampflatmu_eqn" }
  /\ exc \in { "none", "ValueError", "TypeError", "IndexError", "KeyError" }
  /\ (pc = "failed") <=> (exc # "none")

(***************************************************************************)
(* Two instances constructed side by side.  The variables args .. hamiltons_eqns *)
(* hold the instance that is executing, other holds the one that is not.   *)
(***************************************************************************)
\* the attributes and constructor position of the executing instance
Self ==
  [ args |-> args, conf |-> conf, store |-> store, eta_dbldenom |-> eta_dbldenom,
    pc |-> pc, exc |-> exc, diag |-> diag, probed |-> probed, writer |-> writer,
    last |-> last, rd |-> rd, ran |-> ran, hamiltons_eqns |-> hamiltons_eqns ]

\* an instance on which __init__ has not started yet
NewInstance(a) ==
  [ args |-> a, conf |-> [ n \in {} |-> "absent" ],
    store |-> [ n \in EquationNames |-> "absent" ], eta_dbldenom |-> 0,
    pc |-> "new", exc |-> "none", diag |-> {}, probed |-> << >>,
    writer |-> [ n \in AllNames |-> "none" ], last |-> "none", rd |-> {},
    ran |-> << >>, hamiltons_eqns |-> << >> ]

\* the configurations of the two instances
TwoArgs ==
  { [ DefaultArgs EXCEPT !.parameters = "mapping", !.do_idtx = TRUE,
                         !.do_geodesic = TRUE ],
    [ DefaultArgs EXCEPT !.parameters = "mapping", !.eta = << 1, 2 >>,
                         !.mu = << 1, 2 >>, !.beta_type = "tan",
                         !.varphi_type = "ramp-flat", !.ibc_type = "planar",
                         !.do_geodesic = TRUE ] }

InitTwo ==
  /\ InitInstance(TwoArgs)
  /\ other \in { NewInstance(a) : a \in TwoArgs }
  /\ cur = 1
  /\ PureIdle

\* execution passes from one constructor call to the other between two stages
Switch ==
  /\ other' = Self
  /\ args' = other.args
  /\ conf' = other.conf
  /\ store' = other.store
  /\ eta_dbldenom' = other.eta_dbldenom
  /\ pc' = other.pc
  /\ exc' = other.exc
  /\ diag' = other.diag
  /\ probed' = other.probed
  /\ writer' = other.writer
  /\ last' = other.last
  /\ rd' = other.rd
  /\ ran' = other.ran
  /\ hamiltons_eqns' = other.hamiltons_eqns
  /\ cur' = 3 - cur
  /\ UNCHANGED pure

NextTwo ==
  \/ Next
  \/ Switch

SpecTwo ==
  InitTwo /\ [][NextTwo]_vars

(***************************************************************************)
(* The ramp closure of line 281 evaluated at a point, in exact rational    *)
(* arithmetic: a rational is a pair << numerator, denominator >>.          *)
(***************************************************************************)
RECURSIVE gcd(_, _)
gcd(a, b) ==
  IF b = 0 THEN a ELSE gcd(b, a % b)

Rat(n, d) ==
  << n \div gcd(n, d), d \div gcd(n, d) >>

RAdd(a, b) ==
  Rat(a[1] * b[2] + b[1] * a[2], a[2] * b[2])

RMul(a, b) ==
  Rat(a[1] * b[1], a[2] * b[2])

RECURSIVE IntPow(_, _)
IntPow(b, n) ==
  IF n = 0 THEN 1 ELSE b * IntPow(b, n - 1)

HasRoot(n, q) ==
  \E r \in 0..n : IntPow(r, q) = n

Root(n, q) ==
  CHOOSE r \in 0..n : IntPow(r, q) = n

\* b**e for a rational b >= 0 whose q-th roots are rational, e = p/q >= 0;
\* as in SymPy 0**0 = 1 and 0**e = 0 for e > 0
RPow(b, e) ==
  Rat(IntPow(Root(b[1], e[2]), e[1]), IntPow(Root(b[2], e[2]), e[1]))

\* mutation: line 281 without its substitution x -> x_1 - rx (x read as rx)
varphi_model_ramp_eqn_unshifted(a) ==
  RMul(<< a.varphi_0, 1 >>,
       RAdd(RPow(Rat(a.rx, a.x_1), RMul(a.mu, << 2, 1 >>)), a.varepsilon))

\* line 281: varphi_0*((x/x_1)**(mu*2) + varepsilon) with x = x_1 - rx
varphi_model_ramp_eqn(a) ==
  RMul(<< a.varphi_0, 1 >>,
       RAdd(RPow(Rat(a.x_1 - a.rx, a.x_1), RMul(a.mu, << 2, 1 >>)), a.varepsilon))

\* the points of evaluation: 0 <= rx <= x_1, with exact square roots
RampArgs ==
  { a \in [ varphi_0 : { 1, 2, 3 },
            varepsilon : { << 0, 1 >>, << 1, 100 >>, << 1, 10 >> },
            x_1 : { 1, 4 },
            mu : { << 0, 1 >>, << 1, 2 >>, << 3, 4 >>, << 1, 1 >> },
            rx : 0..4 ] :
      /\ a.rx <= a.x_1
      /\ HasRoot(a.x_1 - a.rx, 2)
      /\ HasRoot(a.x_1, 2) }

InitRamp ==
  /\ InitInstance({ DefaultArgs })
  /\ other = NoInstance
  /\ cur = 1
  /\ ramp_args \in RampArgs
  /\ varphi_r = << >>
  /\ PureIdleExcept("ramp")

evaluate_varphi_model_ramp_eqn ==
  /\ varphi_r = << >>
  /\ varphi_r' = varphi_model_ramp_eqn(ramp_args)
  /\ UNCHANGED << instance, second, ramp_args >>
  /\ PureUnchangedExcept("ramp")

NextRamp ==
  evaluate_varphi_model_ramp_eqn

SpecRamp ==
  InitRamp /\ [][NextRamp]_vars

(***************************************************************************)
(* The root selection of lines 728-735 on a list of numerical roots.       *)
(***************************************************************************)
\* the tolerance 1e-20 of line 730, in units of 1e-21
ImTol ==
  10

\* a root evaluated at a probe: im is Abs(im(N(..))) in units of 1e-21,
\* re is the sign of re(N(..))
ProbeValues ==
  [ im : { 9, 10 }, re : { -1, 0 } ]

NumericalRoots ==
  [ primary : ProbeValues, fallback : ProbeValues ]

\* lines 730-731: Abs(im(..)) < 1e-20 and re(..) >= 0
IsAdmissible(v) ==
  v.im < ImTol /\ v.re >= 0

\* the roots in solver order, each with its position and its admissibility
\* at the two probes
Probed(roots) ==
  [ i \in 1..Len(roots) |->
      [ id |-> i, primary |-> IsAdmissible(roots[i].primary),
        fallback |-> IsAdmissible(roots[i].fallback) ] ]

InitRoots ==
  /\ InitInstance({ DefaultArgs })
  /\ other = NoInstance
  /\ cur = 1
  /\ cosbetasqrd_pz_varphi_solns \in CandSeqs(NumericalRoots)
  /\ selected = NotSelected
  /\ PureIdleExcept("cosbetasqrd")

\* lines 732-735: root 0 stands for the IndexError of [0] on an empty list
select_cosbetasqrd_root ==
  /\ selected.probes = << >>
  /\ LET sel == cosbetasqrd_pz_varphi_soln(Probed(cosbetasqrd_pz_varphi_solns))
     IN  selected' = [ probes |-> sel.probes,
                       root |-> IF sel.soln = << >> THEN 0 ELSE sel.soln[1].id,
                       exc |-> fgtx_from_root(sel.soln # << >>).exc,
                       wr |-> fgtx_from_root(sel.soln # << >>).wr ]
  /\ UNCHANGED << instance, second, cosbetasqrd_pz_varphi_solns >>
  /\ PureUnchangedExcept("cosbetasqrd")

NextRoots ==
  select_cosbetasqrd_root

SpecRoots ==
  InitRoots /\ [][NextRoots]_vars

(***************************************************************************)
(* The root selection of lines 553-557 on a list of numerical roots.       *)
(***************************************************************************)
\* a root under eta_sub: sy.im(..) at tan(alpha) = 0, 0.01 and 1 (0: real)
TanbetaRoots ==
  [ at0 : { 0, 1 }, at001 : { 0, 1 }, at1 : { 0, 1 } ]

\* the roots in solver order, each with its position and the three tests
\* sy.im(..)==0 of line 556
TanbetaProbed(roots) ==
  [ i \in 1..Len(roots) |->
      [ id |-> i, at0 |-> roots[i].at0 = 0, at001 |-> roots[i].at001 = 0,
        at1 |-> roots[i].at1 = 0 ] ]

InitTanbeta ==
  /\ InitInstance({ DefaultArgs })
  /\ other = NoInstance
  /\ cur = 1
  /\ tanbeta_alpha_solns \in CandSeqs(TanbetaRoots)
  /\ tanbeta_alpha_soln = NotInverted
  /\ PureIdleExcept("tanbeta")

\* lines 555-557: root 0 stands for the IndexError of [0] on an empty list
select_tanbeta_root ==
  /\ tanbeta_alpha_soln = NotInverted
  /\ LET real == tanbeta_real_solns(TanbetaProbed(tanbeta_alpha_solns))
     IN  tanbeta_alpha_soln' =
           [ root |-> IF real = << >> THEN 0 ELSE real[1].id,
             exc |-> tanbeta_alpha_eqn(real # << >>).exc,
             v |-> tanbeta_alpha_eqn(real # << >>).v ]
  /\ UNCHANGED << instance, second, tanbeta_alpha_solns >>
  /\ PureUnchangedExcept("tanbeta")

NextTanbeta ==
  select_tanbeta_root

SpecTanbeta ==
  InitTanbeta /\ [][NextTanbeta]_vars

(***************************************************************************)
(* The extremal-angle derivation of lines 535-548 on a list of numerical   *)
(* stationary points.                                                      *)
(***************************************************************************)
\* a stationary point under eta_sub: im is sy.im(..) (0: real), re its value
AlphaExtrema ==
  [ im : { 0, 1 }, re : { -1, 0, 1, 2 } ]

\* line 538: sy.im(extremum.subs(eta_sub))==0 and extremum.subs(eta_sub)>0
IsRealPositive(extremum) ==
  extremum.im = 0 /\ extremum.re > 0

RealPositive(extrema) ==
  [ i \in 1..Len(extrema) |-> IsRealPositive(extrema[i]) ]

\* the position in alpha_extrema of the root on the right-hand side of
\* beta_at_alpha_extremum_eqn: alpha_extrema_real_positive[0] (line 540),
\* alpha_extrema[0] (line 543), or 0 for the sentinel of line 547
beta_at_alpha_extremum_root(tested) ==
  IF alpha_extrema_real_positive(tested) # << >>
  THEN CHOOSE i \in DOMAIN tested :
         tested[i] /\ \A k \in DOMAIN tested : tested[k] => i <= k
  ELSE IF tested # << >> THEN 1 ELSE 0

InitExtremum ==
  /\ InitInstance({ DefaultArgs })
  /\ other = NoInstance
  /\ cur = 1
  /\ alpha_extrema_solns \in CandSeqs(AlphaExtrema)
  /\ beta_at_alpha_extremum_soln = NoExtremum
  /\ PureIdleExcept("extremum")

find_extrema ==
  /\ beta_at_alpha_extremum_soln = NoExtremum
  /\ LET tested == RealPositive(alpha_extrema_solns)
     IN  beta_at_alpha_extremum_soln' =
           [ root |-> beta_at_alpha_extremum_root(tested),
             v |-> beta_at_alpha_extremum(tested).v,
             msgs |-> beta_at_alpha_extremum(tested).msgs ]
  /\ UNCHANGED << instance, second, alpha_extrema_solns >>
  /\ PureUnchangedExcept("extremum")

NextExtremum ==
  find_extrema

SpecExtremum ==
  InitExtremum /\ [][NextExtremum]_vars

(***************************************************************************)
(* The Christoffel coefficients and the geodesic right-hand sides of lines *)
(* 934-971 evaluated at a point.  Indices range over 0, 1 as in the code;  *)
(* every coefficient is carried doubled, which keeps it an integer.        *)
(***************************************************************************)
Axes ==
  { 0, 1 }

\* line 934
gstar_ij_lambda(i_, j_) ==
  gstar_ij_mat[i_][j_]

\* line 938: self.dg_rk_ij_mat[k_,0,i_,j_]
dg_ij_rk_lambda(i_, j_, k_) ==
  dg_rk_ij_mat[k_][i_][j_]

\* lines 941-946, one summand, without the factor 1/2
christoffel_ij_k_raw(i_, j_, k_, m_) ==
  gstar_ij_lambda(k_, m_) * (dg_ij_rk_lambda(m_, i_, j_) + dg_ij_rk_lambda(m_, j_, i_)
                               - dg_ij_rk_lambda(i_, j_, m_))

\* lines 948-949: the sum over m_ in [0,1] (doubled)
christoffel_ij_k_rx_rdot_lambda(i_, j_, k_) ==
  christoffel_ij_k_raw(i_, j_, k_, 0) + christoffel_ij_k_raw(i_, j_, k_, 1)

\* lambdify(.., expr): the callable form of one coefficient
lambdify(i_, j_, k_) ==
  [ of |-> << i_, j_, k_ >>, value |-> christoffel_ij_k_rx_rdot_lambda(i_, j_, k_) ]

\* lines 950-954: the comprehension nests for i_ innermost and for k_
\* outermost, so the list is subscripted [k_][j_][i_]
christoffel_ij_k_rx_rdot_list ==
  [ k_ \in Axes |-> [ j_ \in Axes |-> [ i_ \in Axes |-> lambdify(i_, j_, k_) ] ] ]

\* line 955 (the argument varepsilon_ is not used)
christoffel_ij_k_lambda(i_, j_, k_) ==
  christoffel_ij_k_rx_rdot_list[i_][j_][k_]

\* mutation: the cross term is counted once
geodesic_vdot_single_cross(k_) ==
  0 - christoffel_ij_k_rx_rdot_lambda(0, 0, k_) * rdot[1] * rdot[1]
    - christoffel_ij_k_rx_rdot_lambda(0, 1, k_) * rdot[1] * rdot[2]
    - christoffel_ij_k_rx_rdot_lambda(1, 1, k_) * rdot[2] * rdot[2]

\* lines 962-970: the right-hand side of vdotx (k_ = 0) and vdotz (k_ = 1)
geodesic_vdot(k_) ==
  0 - christoffel_ij_k_rx_rdot_lambda(0, 0, k_) * rdot[1] * rdot[1]
    - 2 * christoffel_ij_k_rx_rdot_lambda(0, 1, k_) * rdot[1] * rdot[2]
    - christoffel_ij_k_rx_rdot_lambda(1, 1, k_) * rdot[2] * rdot[2]

\* the co-metric is a Hessian (line 826), hence symmetric
CoMetrics ==
  { [ i_ \in Axes |-> [ j_ \in Axes |->
        IF i_ = 0 /\ j_ = 0 THEN a ELSE IF i_ = 1 /\ j_ = 1 THEN 1 ELSE b ] ] :
      a \in { 1, 2 }, b \in { 0, 1 } }

MetricDerivatives ==
  [ Axes -> [ Axes -> [ Axes -> { 0, 1 } ] ] ]

InitGeodesic ==
  /\ InitInstance({ DefaultArgs })
  /\ other = NoInstance
  /\ cur = 1
  /\ gstar_ij_mat \in CoMetrics
  /\ dg_rk_ij_mat \in MetricDerivatives
  /\ rdot \in { << 1, 2 >>, << 2, 1 >> }
  /\ christoffel_call = NoCall
  /\ vdot = << >>
  /\ PureIdleExcept("geodesic")

\* a caller evaluates self.christoffel_ij_k_lambda(i_, j_, k_, varepsilon_)
call_christoffel_ij_k_lambda ==
  /\ christoffel_call = NoCall
  /\ \E i_ \in Axes, j_ \in Axes, k_ \in Axes :
       christoffel_call' =
         [ indices |-> << i_, j_, k_ >>,
           returned |-> christoffel_ij_k_lambda(i_, j_, k_),
           symbolic |-> christoffel_ij_k_rx_rdot_lambda(i_, j_, k_) ]
  /\ UNCHANGED << instance, second, gstar_ij_mat, dg_rk_ij_mat, rdot, vdot >>
  /\ PureUnchangedExcept("geodesic")

\* lines 958-971: rows 2 and 3 of geodesic_eqns
assemble_geodesic_eqns ==
  /\ vdot = << >>
  /\ vdot' = << geodesic_vdot(0), geodesic_vdot(1) >>
  /\ UNCHANGED << instance, second, gstar_ij_mat, dg_rk_ij_mat, rdot,
                  christoffel_call >>
  /\ PureUnchangedExcept("geodesic")

NextGeodesic ==
  \/ call_christoffel_ij_k_lambda
  \/ assemble_geodesic_eqns

SpecGeodesic ==
  InitGeodesic /\ [][NextGeodesic]_vars

(***************************************************************************)
(* define_px_poly_eqn(eta_choice) of lines 977-1009 called as a method.    *)
(***************************************************************************)
PxPolyArgs ==
  [ eta : EtaValues,
    eta_choice : EtaValues \cup { NoChoice },
    varphi_rx_eqn : { "varphi_model_ramp_eqn", "varphi_model_rampflat_eqn",
                      "varphi_model_rampflatmu_eqn" } ]

InitPxPoly ==
  /\ InitInstance({ DefaultArgs })
  /\ other = NoInstance
  /\ cur = 1
  /\ px_poly_args \in PxPolyArgs
  /\ px_poly = NoPoly
  /\ PureIdleExcept("px_poly")

\* lines 999-1009
call_define_px_poly_eqn ==
  /\ px_poly = NoPoly
  /\ LET eta_ == eta_from_choice(px_poly_args.eta, px_poly_args.eta_choice)
         poly_ == poly_px_xiv_varphi_eqn(eta_)
     IN px_poly' = [ poly_px_xiv_varphi_eqn |-> poly_,
                     poly_px_xiv0_eqn |->
                       poly_px_xiv0_eqn(poly_, px_poly_args.varphi_rx_eqn) ]
  /\ UNCHANGED << instance, second, px_poly_args >>
  /\ PureUnchangedExcept("px_poly")

NextPxPoly ==
  call_define_px_poly_eqn

SpecPxPoly ==
  InitPxPoly /\ [][NextPxPoly]_vars

(***************************************************************************)
(* Properties                                                              *)
(***************************************************************************)
\* stage s has been executed in this construction
HasRun(s) ==
  StageIndex(last) >= StageIndex(s) /\ StageRequested(s)

\* construction has ended, by returning or by raising
Ended ==
  pc \in { "done", "failed" }

IndicatrixResults ==
  { "cosbetasqrd_pz_varphi_soln", "fgtx_cossqrdbeta_pz_varphi_eqn",
    "fgtx_tanbeta_pz_varphi_eqn", "fgtx_px_pz_varphi_eqn", "idtx_rdotx_pz_varphi_eqn",
    "idtx_rdotz_pz_varphi_eqn" }

IndicatrixDiagnostic ==
  "Cannot compute all indicatrix equations for tan(beta) model and eta"

\* C1: every attribute a stage reads from the store (and did not assign itself)
\* was assigned by a stage that ran strictly earlier in the constructor's
\* order; no stage reads an attribute that has not yet been written.
C1_NoForwardReference ==
  \A n \in rd : writer[n] # "none" /\ StageIndex(writer[n]) < StageIndex(last)

C1_Witness ==
  /\ pc = "done"
  /\ last = "set_ibc_eqns"
  /\ args.do_idtx /\ args.do_geodesic
  /\ { "boundary_eqns", "varphi_rx_eqn" } \subseteq rd

C3_MissingParametersLeaveNone ==
  ( /\ args.do_geodesic
    /\ args.parameters = "None"
    /\ ~(Geq1(args.eta) /\ args.beta_type = "sin")
    /\ HasRun("prep_geodesic_eqns")
    /\ Ended )
  => /\ \A n \in { "gstar_ij_mat", "g_ij_mat", "geodesic_eqns", "dg_rk_ij_mat",
                   "christoffel_ij_k_rx_rdot_lambda", "christoffel_ij_k_lambda",
                   "g_ij_mat_lambdified", "gstar_ij_mat_lambdified",
                   "vdotx_lambdified", "vdotz_lambdified" } : store[n] = "None"
     /\ \A n \in W_define_px_poly_eqn \cup W_prep_ibc_eqns \cup W_define_ibc_eqns :
          IsAvailable(store[n])

\* C4: sine model with eta >= 1 and geodesics requested: both geodesic
\* stages return without raising, all sixteen of their outputs are None,
\* and the constructor goes on to the polynomial and boundary stages.
C4_SineEtaGeq1GeodesicsNone ==
  ( args.do_geodesic /\ Geq1(args.eta) /\ args.beta_type = "sin" )
  => /\ HasRun("prep_geodesic_eqns") =>
          \A n \in W_prep_geodesic_eqns : store[n] = "None"
     /\ HasRun("define_geodesic_eqns") =>
          \A n \in W_define_geodesic_eqns : store[n] = "None"
     /\ last = "prep_geodesic_eqns" => exc = "none" /\ pc = "define_geodesic_eqns"
     /\ last = "define_geodesic_eqns" => exc = "none" /\ pc = "define_px_poly_eqn"
     /\ (HasRun("prep_geodesic_eqns") /\ Ended) => last = "set_ibc_eqns"

C4_Witness ==
  /\ args.do_geodesic /\ args.eta = << 3, 2 >> /\ args.beta_type = "sin"
  /\ pc = "done"
  /\ store["g_ij_mat"] = "None" /\ store["vdotz_lambdified"] = "None"
  /\ store["poly_px_xiv0_eqn"] = "eqn" /\ store["pz_initial_eqn"] = "eqn"

\* C5 (as claimed): sine model with eta >= 1 and the indicatrix requested:
\* the stage leaves its six results None and prints a diagnostic.
C5_SineEtaGeq1IndicatrixNone ==
  ( /\ args.do_idtx /\ Geq1(args.eta) /\ args.beta_type = "sin"
    /\ HasRun("define_idtx_fgtx_eqns")
    /\ exc = "none" )
  => /\ \A n \in IndicatrixResults : store[n] = "None"
     /\ IndicatrixDiagnostic \in diag

\* C5 (amended): sine model with eta >= 1 and the indicatrix requested: the
\* stage applies no exclusion and prints no diagnostic; it consults the
\* probes, stores all six results when a candidate is admissible, and
\* otherwise raises IndexError with the five equations still None.
C5_SineEtaGeq1IndicatrixComputed ==
  ( /\ args.do_idtx /\ Geq1(args.eta) /\ args.beta_type = "sin"
    /\ HasRun("define_idtx_fgtx_eqns") )
  => /\ IndicatrixDiagnostic \notin diag
     /\ probed # << >>
     /\ IF last = "define_idtx_fgtx_eqns" /\ pc = "failed"
        THEN /\ exc = "IndexError"
             /\ store["cosbetasqrd_pz_varphi_soln"] = "empty_list"
             /\ \A n \in IndicatrixResults \ { "cosbetasqrd_pz_varphi_soln" } :
                  store[n] = "None"
        ELSE \A n \in IndicatrixResults : IsAvailable(store[n])

C5_Witness ==
  /\ args.do_idtx /\ args.eta = << 3, 2 >> /\ args.beta_type = "sin"
  /\ last = "define_idtx_fgtx_eqns"
  /\ exc = "none"
  /\ \A n \in IndicatrixResults : store[n] = "eqn"

\* C6: tangent model with eta 1/4 or 3/2: the indicatrix stage returns after
\* solving for the candidates; the selected root and the five equations
\* stay None, no probe is consulted, nothing is raised and the constructor
\* continues with the next stage.
C6_TanIndicatrixStops ==
  ( /\ args.do_idtx /\ args.beta_type = "tan"
    /\ args.eta \in { << 1, 4 >>, << 3, 2 >> }
    /\ HasRun("define_idtx_fgtx_eqns") )
  => /\ store["cosbetasqrd_pz_varphi_solns"] = "eqn"
     /\ \A n \in IndicatrixResults : store[n] = "None"
     /\ probed = << >>
     /\ last = "define_idtx_fgtx_eqns" =>
          /\ exc = "none"
          /\ pc = IF args.do_geodesic THEN "prep_geodesic_eqns"
                  ELSE "define_px_poly_eqn"

C6_Witness ==
  /\ args.do_idtx /\ args.beta_type = "tan" /\ args.eta = << 1, 4 >>
  /\ pc = "done"
  /\ store["cosbetasqrd_pz_varphi_solns"] = "eqn"
  /\ store["fgtx_px_pz_varphi_eqn"] = "None"

TanbetaResults ==
  { "beta_at_alpha_extremum_eqn", "beta_at_alpha_extremum_numerical_eqn",
    "tanbeta_alpha_eqn" }

\* C7 (as claimed): eta = 1 with the sine model: all three outputs of the
\* tan(beta) stage are None.
C7_TanbetaStageAllNone ==
  ( args.eta = << 1, 1 >> /\ args.beta_type = "sin" /\ HasRun("define_tanbeta_eqns") )
  => \A n \in TanbetaResults : store[n] = "None"

\* C7 (amended): eta = 1 with the sine model: only the inversion is skipped;
\* tanbeta_alpha_eqn is None, the two extremal-angle equations are set, the
\* stage prints its diagnostic and returns.
C7_TanbetaInversionSkipped ==
  ( args.eta = << 1, 1 >> /\ args.beta_type = "sin" /\ HasRun("define_tanbeta_eqns") )
  => /\ store["tanbeta_alpha_eqn"] = "None"
     /\ IsAvailable(store["beta_at_alpha_extremum_eqn"])
     /\ IsAvailable(store["beta_at_alpha_extremum_numerical_eqn"])
     /\ "Cannot compute all beta equations for sin(beta) model and eta=1" \in diag
     /\ last = "define_tanbeta_eqns" => exc = "none" /\ pc = "define_g_eqns"

C7_Witness ==
  /\ args.eta = << 1, 1 >> /\ args.beta_type = "sin"
  /\ last = "define_tanbeta_eqns"
  /\ store["tanbeta_alpha_eqn"] = "None"
  /\ store["beta_at_alpha_extremum_eqn"] = "eqn"

\* C8: after define_g_eqns, eta = 1 with the sine model has the dual metric
\* and its determinant but None for the primal metric and the three eigen
\* outputs; every other (model, eta) has all six outputs.
C8_MetricOutputs ==
  HasRun("define_g_eqns") =>
    IF args.eta = << 1, 1 >> /\ args.beta_type = "sin"
    THEN /\ IsAvailable(store["gstar_varphi_pxpz_eqn"])
         /\ IsAvailable(store["det_gstar_varphi_pxpz_eqn"])
         /\ \A n \in { "g_varphi_pxpz_eqn", "gstar_eigen_varphi_pxpz",
                       "gstar_eigenvalues", "gstar_eigenvectors" } : store[n] = "None"
    ELSE \A n \in W_define_g_eqns : IsAvailable(store[n])

C8_Witness ==
  /\ args.eta = << 1, 1 >> /\ args.beta_type = "sin"
  /\ last = "define_g_eqns"
  /\ store["gstar_varphi_pxpz_eqn"] = "eqn"
  /\ store["g_varphi_pxpz_eqn"] = "None"

\* C9 (as claimed): eta = 1 with the sine model, any recognised flow model
\* and boundary profile and any flags: a completed construction has
\* g_ij_mat and gstar_eigenvalues present and None.
C9_DegenerateMarkedUnavailable ==
  ( /\ args.eta = << 1, 1 >> /\ args.beta_type = "sin"
    /\ args.varphi_type \in { "ramp", "ramp-flat" }
    /\ args.ibc_type \in BoundaryProfiles
    /\ ~args.do_nothing
    /\ pc = "done" )
  => store["g_ij_mat"] = "None" /\ store["gstar_eigenvalues"] = "None"

\* C10 (as claimed): after a successful construction every output of the
\* indicatrix stage and of the two geodesic stages is present on the
\* instance, holding None when its stage was not requested.
C10_OptionalOutputsPresent ==
  ( pc = "done" /\ ~args.do_nothing )
  => /\ \A n \in W_define_idtx_fgtx_eqns :
          store[n] # "absent" /\ (~args.do_idtx => store[n] = "None")
     /\ \A n \in W_prep_geodesic_eqns \cup W_define_geodesic_eqns :
          store[n] # "absent" /\ (~args.do_geodesic => store[n] = "None")

\* sequence a is an initial segment of sequence b
IsPrefix(a, b) ==
  Len(a) <= Len(b) /\ SubSeq(b, 1, Len(a)) = a

\* the stage calls of lines 97-119 for the flags given, written out
ScheduledStages ==
  << "define_p_eqns", "define_r_eqns", "define_xi_eqns", "define_xi_model_eqn",
     "define_xi_related_eqns", "define_varphi_model_eqn",
     "define_varphi_related_eqns", "define_Fstar_eqns", "define_H_eqns",
     "define_rdot_eqns", "define_pdot_eqns", "define_Hamiltons_eqns",
     "define_tanalpha_eqns", "define_tanbeta_eqns", "define_g_eqns" >>
  \o (IF args.do_idtx THEN << "define_idtx_fgtx_eqns" >> ELSE << >>)
  \o (IF args.do_geodesic THEN << "prep_geodesic_eqns", "define_geodesic_eqns" >>
      ELSE << >>)
  \o << "define_px_poly_eqn", "prep_ibc_eqns", "define_ibc_eqns", "set_ibc_eqns" >>

\* C11: the stages executed are always an initial segment of the fixed order
\* in which the indicatrix stage appears iff do_idtx and the two geodesic
\* stages iff do_geodesic, both between define_g_eqns and define_px_poly_eqn,
\* indicatrix first; the stage about to run is the next one of that order; and
\* a construction with do_nothing false that returns has run every stage of
\* that order exactly once.
C11_StageSchedule ==
  /\ IsPrefix(ran, ScheduledStages)
  /\ pc \in Stages =>
       /\ Len(ran) < Len(ScheduledStages)
       /\ ScheduledStages[Len(ran) + 1] = pc
  /\ (pc = "done" /\ ~args.do_nothing) => ran = ScheduledStages

\* a construction with both optional stages requested has returned
C11_Witness ==
  /\ pc = "done"
  /\ args.do_idtx /\ args.do_geodesic
  /\ Len(ran) = 22
  /\ ran[16] = "define_idtx_fgtx_eqns"
  /\ ran[17] = "prep_geodesic_eqns"

\* stage s is among the stages executed so far
Executed(s) ==
  \E i \in DOMAIN ran : ran[i] = s

\* C12: with do_nothing true the constructor returns without error and
\* without running any stage, for every configuration: the instance holds the
\* six configuration fields and no equation entry.
C12_DoNothingRunsNoStage ==
  (args.do_nothing /\ pc # "new") =>
    /\ pc = "done"
    /\ exc = "none"
    /\ ran = << >>
    /\ DOMAIN conf = { "eta", "mu", "do_raw", "ibc_type", "beta_type", "varphi_type" }
    /\ \A n \in EquationNames : store[n] = "absent" /\ writer[n] = "none"
    /\ eta_dbldenom = 0
    /\ hamiltons_eqns = << >>

\* an empty instance has been returned for unrecognized model names
C12_Witness ==
  /\ args.do_nothing
  /\ pc = "done"
  /\ args.varphi_type = "flat"
  /\ args.ibc_type = "linear"
  /\ DOMAIN conf = ConfigNames

\* C13: with a varphi_type other than 'ramp' and 'ramp-flat' (and do_nothing
\* false) construction never returns; once the flow-model stage has run,
\* construction has failed there with ValueError, the outputs of the five
\* earlier stages are stored, varphi_rx_eqn is not set and no output of a
\* later stage exists.
C13_UnknownFlowModelRaises ==
  (~args.do_nothing /\ args.varphi_type \notin { "ramp", "ramp-flat" }) =>
    /\ pc # "done"
    /\ Len(ran) <= 6
    /\ Executed("define_varphi_model_eqn") =>
         /\ pc = "failed"
         /\ exc = "ValueError"
         /\ ran[Len(ran)] = "define_varphi_model_eqn"
         /\ \A n \in W_define_p_eqns \cup W_define_r_eqns \cup W_define_xi_eqns
                     \cup W_define_xi_related_eqns :
               store[n] = "eqn"
         /\ \A n \in W_define_xi_model_eqn : IsAvailable(store[n])
         /\ store["varphi_rx_eqn"] = "absent"
         /\ \A n \in EquationNames :
               writer[n] \notin { "none", "define_p_eqns", "define_r_eqns",
                                  "define_xi_eqns", "define_xi_model_eqn",
                                  "define_xi_related_eqns", "define_varphi_model_eqn" }
                 => store[n] = "absent"
         /\ \A n \in EquationNames : writer[n] = "none" => store[n] = "absent"

\* construction has failed in the flow-model stage on an unknown variant
C13_Witness ==
  /\ args.varphi_type = "flat"
  /\ pc = "failed"
  /\ exc = "ValueError"
  /\ last = "define_varphi_model_eqn"
  /\ store["varphi_model_ramp_eqn"] = "eqn"

\* C14: with an ibc_type outside {'planar','convex-up','concave-up'} (and
\* do_nothing false) construction never returns an instance; when it gets as
\* far as set_ibc_eqns, the one stage that uses the profile, it fails there
\* (KeyError) before that stage stores anything, and a KeyError arises nowhere
\* else.
C14_UnknownBoundaryProfileRaises ==
  (~args.do_nothing /\ args.ibc_type \notin { "planar", "convex-up", "concave-up" }) =>
    /\ pc # "done"
    /\ Executed("set_ibc_eqns") =>
         /\ pc = "failed"
         /\ exc = "KeyError"
         /\ \A n \in W_set_ibc_eqns : store[n] = "absent"
    /\ exc = "KeyError" => ran[Len(ran)] = "set_ibc_eqns"

\* construction has failed in set_ibc_eqns on an unknown profile
C14_Witness ==
  /\ args.ibc_type = "linear"
  /\ pc = "failed"
  /\ exc = "KeyError"
  /\ last = "set_ibc_eqns"
  /\ store["boundary_eqns"] = "eqn"

C16_PdotzIdenticallyZero ==
  /\ Executed("define_pdot_eqns") => store["pdotz_pxpz_eqn"] = "eqn_zero"
  /\ Executed("define_Hamiltons_eqns") =>
       /\ Len(hamiltons_eqns) = 4
       /\ hamiltons_eqns[4] = "eqn_zero"
  /\ ~Executed("define_Hamiltons_eqns") => hamiltons_eqns = << >>

\* Hamilton's equations have been assembled in a tangent-model construction
C16_Witness ==
  /\ args.beta_type = "tan"
  /\ Executed("define_Hamiltons_eqns")
  /\ store["hamiltons_eqns"] = "eqn"
  /\ Len(hamiltons_eqns) = 4

\* C17: from the moment the constructor has stored them, the six
\* configuration fields equal the constructor's arguments, whatever stages
\* have run since.
C17_ConfigurationNeverModified ==
  pc # "new" =>
    conf = [ eta |-> args.eta, mu |-> args.mu, do_raw |-> args.do_raw,
             ibc_type |-> args.ibc_type, beta_type |-> args.beta_type,
             varphi_type |-> args.varphi_type ]

\* every stage including the optional ones has run on a configuration
C17_Witness ==
  /\ pc = "done"
  /\ Len(ran) = 22
  /\ args.eta = << 3, 2 >>
  /\ conf.eta = << 3, 2 >>

\* instance i of the two, whichever of them is executing
Instance(i) ==
  IF cur = i THEN Self ELSE other

\* what an instance holds is determined by its own arguments and its own stages
OwnStore(r) ==
  /\ r.pc # "new" => /\ r.conf.eta = r.args.eta
                     /\ r.conf.mu = r.args.mu
                     /\ r.conf.beta_type = r.args.beta_type
                     /\ r.conf.varphi_type = r.args.varphi_type
                     /\ r.conf.ibc_type = r.args.ibc_type
  /\ \A n \in EquationNames :
       r.store[n] # "absent" <=> \E k \in DOMAIN r.ran : r.ran[k] = r.writer[n]
  /\ r.store["varphi_rx_eqn"] \in
       { "absent",
         IF r.args.varphi_type = "ramp" THEN "varphi_model_ramp_eqn"
         ELSE IF r.args.mu = << 1, 2 >> THEN "varphi_model_rampflat_eqn"
         ELSE "varphi_model_rampflatmu_eqn" }
  /\ r.eta_dbldenom \in { 0, 2 * r.args.eta[2] }
  /\ r.pc = "done" => \A n \in W_set_ibc_eqns : r.store[n] = "eqn"

\* C18: when two constructions are interleaved stage by stage, a stage of the
\* executing instance leaves everything the other instance holds unchanged,
\* passing control changes neither instance, and at every moment each
\* instance holds what its own arguments and its own stages determine.
C18_InstancesIsolated ==
  /\ [](\A i \in { 1, 2 } : OwnStore(Instance(i)))
  /\ [][ \A i \in { 1, 2 } :
           (i # cur \/ cur' # cur) => Instance(i)' = Instance(i) ]_vars

\* two differently configured instances, interleaved, have both been returned
C18_Witness ==
  /\ pc = "done"
  /\ other.pc = "done"
  /\ args.beta_type # other.args.beta_type
  /\ store["varphi_rx_eqn"] # other.store["varphi_rx_eqn"]
  /\ cur = 2

\* C19: the ramp closure evaluated at rx = x_1 with mu > 0 equals
\* varphi_0*varepsilon exactly.
C19_RampAtDivide ==
  (varphi_r # << >> /\ ramp_args.rx = ramp_args.x_1 /\ ramp_args.mu[1] > 0) =>
    varphi_r[1] * ramp_args.varepsilon[2]
      = ramp_args.varphi_0 * ramp_args.varepsilon[1] * varphi_r[2]

\* the closure has been evaluated at the divide x_1 = 4 with mu = 3/4
C19_Witness ==
  /\ ramp_args.rx = 4
  /\ ramp_args.x_1 = 4
  /\ ramp_args.mu = << 3, 4 >>
  /\ ramp_args.varphi_0 = 3
  /\ ramp_args.varepsilon = << 1, 100 >>
  /\ varphi_r = << 3, 100 >>

\* the positions of the roots that pass the test of lines 730-731 at a probe
AdmissibleRoots(probe) ==
  { i \in DOMAIN cosbetasqrd_pz_varphi_solns :
      LET v == IF probe = "primary" THEN cosbetasqrd_pz_varphi_solns[i].primary
               ELSE cosbetasqrd_pz_varphi_solns[i].fallback
      IN  v.im < 10 /\ v.re >= 0 }

\* C20: the primary probe is consulted first and the fallback probe only
\* when no root is admissible at the primary probe; a root is admissible at
\* a probe iff its imaginary part is below 1e-20 in magnitude and its real
\* part is >= 0; the root selected is the first admissible one, in solver
\* order, at the probe that had an admissible root.
C20_ProbeOrderRootSelection ==
  selected.probes # << >> =>
    /\ selected.probes[1] = "primary"
    /\ AdmissibleRoots("primary") # {} =>
         /\ selected.probes = << "primary" >>
         /\ selected.root \in AdmissibleRoots("primary")
         /\ \A i \in AdmissibleRoots("primary") : selected.root <= i
    /\ AdmissibleRoots("primary") = {} =>
         selected.probes = << "primary", "fallback" >>
    /\ (AdmissibleRoots("primary") = {} /\ AdmissibleRoots("fallback") # {}) =>
         /\ selected.root \in AdmissibleRoots("fallback")
         /\ \A i \in AdmissibleRoots("fallback") : selected.root <= i

\* the second root has been selected at the fallback probe
C20_Witness ==
  /\ selected.probes = << "primary", "fallback" >>
  /\ selected.root = 2
  /\ Len(cosbetasqrd_pz_varphi_solns) = 2
  /\ cosbetasqrd_pz_varphi_solns[2].fallback = [ im |-> 9, re |-> 0 ]
  /\ cosbetasqrd_pz_varphi_solns[1].fallback = [ im |-> 10, re |-> 0 ]

\* the equations built from the selected root (lines 735-746)
FromSelectedRoot ==
  { "fgtx_cossqrdbeta_pz_varphi_eqn", "fgtx_tanbeta_pz_varphi_eqn",
    "fgtx_px_pz_varphi_eqn", "idtx_rdotx_pz_varphi_eqn", "idtx_rdotz_pz_varphi_eqn" }

\* C21: when no root is admissible at the primary probe nor at the fallback
\* probe, both probes have been consulted, no root is selected, the stage
\* raises (IndexError), the list stored is empty and
\* fgtx_cossqrdbeta_pz_varphi_eqn and the equations built from it are None;
\* and the stage raises in no other case.
C21_NoAdmissibleRootRaises ==
  selected.probes # << >> =>
    /\ (AdmissibleRoots("primary") = {} /\ AdmissibleRoots("fallback") = {}) =>
         /\ selected.probes = << "primary", "fallback" >>
         /\ selected.root = 0
         /\ selected.exc = "IndexError"
         /\ selected.wr["cosbetasqrd_pz_varphi_soln"] = "empty_list"
         /\ \A n \in FromSelectedRoot : selected.wr[n] = "None"
    /\ (AdmissibleRoots("primary") # {} \/ AdmissibleRoots("fallback") # {}) =>
         /\ selected.exc = "none"
         /\ selected.root # 0

\* two roots were returned, neither admissible at either probe
C21_Witness ==
  /\ Len(cosbetasqrd_pz_varphi_solns) = 2
  /\ selected.exc = "IndexError"
  /\ cosbetasqrd_pz_varphi_solns[1].primary = [ im |-> 9, re |-> -1 ]
  /\ cosbetasqrd_pz_varphi_solns[2].fallback = [ im |-> 10, re |-> 0 ]

\* the positions of the roots whose imaginary part is zero at some probe
RealTanbetaRoots ==
  { i \in DOMAIN tanbeta_alpha_solns :
      \/ tanbeta_alpha_solns[i].at0 = 0
      \/ tanbeta_alpha_solns[i].at001 = 0
      \/ tanbeta_alpha_solns[i].at1 = 0 }

\* C22: tanbeta_alpha_eqn is built from the first root, in solver order,
\* whose imaginary part is zero at at least one of tan(alpha) = 0, 0.01, 1;
\* when no root passes, the stage raises (IndexError) and tanbeta_alpha_eqn
\* stays None.
C22_TanbetaFirstRealRoot ==
  tanbeta_alpha_soln # NotInverted =>
    /\ RealTanbetaRoots # {} =>
         /\ tanbeta_alpha_soln.root \in RealTanbetaRoots
         /\ \A i \in RealTanbetaRoots : tanbeta_alpha_soln.root <= i
         /\ tanbeta_alpha_soln.exc = "none"
         /\ tanbeta_alpha_soln.v = "eqn"
    /\ RealTanbetaRoots = {} =>
         /\ tanbeta_alpha_soln.root = 0
         /\ tanbeta_alpha_soln.exc = "IndexError"
         /\ tanbeta_alpha_soln.v = "None"

\* a root real only at tan(alpha) = 1 has won over a later root real at all
\* three probes
C22_Witness ==
  /\ Len(tanbeta_alpha_solns) = 2
  /\ tanbeta_alpha_solns[1] = [ at0 |-> 1, at001 |-> 1, at1 |-> 0 ]
  /\ tanbeta_alpha_solns[2] = [ at0 |-> 0, at001 |-> 0, at1 |-> 0 ]
  /\ tanbeta_alpha_soln.root = 1
  /\ tanbeta_alpha_soln.v = "eqn"

\* the positions of the stationary points that are real and positive
AdmissibleExtrema ==
  { i \in DOMAIN alpha_extrema_solns :
      alpha_extrema_solns[i].im = 0 /\ alpha_extrema_solns[i].re > 0 }

\* C23: when no stationary point is real and positive, the sentinel 0 is
\* recorded and a diagnostic is printed; when some are, the first of them in
\* solver order is recorded.
C23_SentinelOrFirstAdmissible ==
  beta_at_alpha_extremum_soln # NoExtremum =>
    /\ AdmissibleExtrema = {} =>
         /\ beta_at_alpha_extremum_soln.root = 0
         /\ beta_at_alpha_extremum_soln.v = "eqn_zero"
         /\ beta_at_alpha_extremum_soln.msgs # {}
    /\ AdmissibleExtrema # {} =>
         /\ beta_at_alpha_extremum_soln.root \in AdmissibleExtrema
         /\ \A i \in AdmissibleExtrema : beta_at_alpha_extremum_soln.root <= i

\* C24: what christoffel_ij_k_lambda(i, j, k, eps) returns is the callable
\* form of the coefficient christoffel_ij_k_rx_rdot_lambda(i, j, k) at the
\* same indices, with the same value.
C24_ChristoffelIndicesAgree ==
  christoffel_call # NoCall =>
    /\ christoffel_call.returned.of = christoffel_call.indices
    /\ christoffel_call.returned.value = christoffel_call.symbolic

\* twice G(i,j,k) = 1/2 sum_m gstar[k,m] (d_i g[m,j] + d_j g[m,i] - d_m g[i,j])
TwiceG(i, j, k) ==
  gstar_ij_mat[k][0] * (dg_rk_ij_mat[i][0][j] + dg_rk_ij_mat[j][0][i]
                          - dg_rk_ij_mat[0][i][j])
  + gstar_ij_mat[k][1] * (dg_rk_ij_mat[i][1][j] + dg_rk_ij_mat[j][1][i]
                            - dg_rk_ij_mat[1][i][j])

\* twice the sum over i, j in {0,1} of G(i,j,k) v^i v^j
TwiceFullSum(k) ==
  TwiceG(0, 0, k) * rdot[1] * rdot[1] + TwiceG(0, 1, k) * rdot[1] * rdot[2]
  + TwiceG(1, 0, k) * rdot[2] * rdot[1] + TwiceG(1, 1, k) * rdot[2] * rdot[2]

\* g_ij_mat is symmetric, and so are its derivatives
MetricSymmetric ==
  \A r \in { 0, 1 }, i \in { 0, 1 }, j \in { 0, 1 } :
    dg_rk_ij_mat[r][i][j] = dg_rk_ij_mat[r][j][i]

\* C25: for a symmetric g_ij_mat and each k, G(0,1,k) = G(1,0,k) and the
\* right-hand side assembled in geodesic_eqns equals minus the full sum over
\* i, j of G(i,j,k) v^i v^j.
C25_SymmetryShortcutIsFullSum ==
  (vdot # << >> /\ MetricSymmetric) =>
    \A k \in { 0, 1 } :
      /\ TwiceG(0, 1, k) = TwiceG(1, 0, k)
      /\ vdot[k + 1] = 0 - TwiceFullSum(k)

\* the right-hand sides have been assembled for a symmetric metric whose
\* cross coefficient does not vanish
C25_Witness ==
  /\ vdot # << >>
  /\ MetricSymmetric
  /\ TwiceG(0, 1, 0) # 0
  /\ vdot[1] # 0
  /\ vdot[2] # vdot[1]

\* C26: define_px_poly_eqn takes its exponent from eta_choice when one is
\* passed and from the receiver's eta otherwise; a value <= 1 (1 included)
\* gives the direct polynomial, a value > 1 the polynomial of the numerator, and
\* poly_px_xiv0_eqn is that polynomial with the flow closure substituted and
\* xiv set to xiv_0, equated to zero.
C26_PolyBranchByChosenEta ==
  px_poly # NoPoly =>
    LET a == px_poly_args
        e == IF a.eta_choice # NoChoice THEN a.eta_choice ELSE a.eta
        branch == IF e[1] <= e[2] THEN "poly_direct" ELSE "poly_numer"
    IN /\ px_poly.poly_px_xiv_varphi_eqn = branch
       /\ px_poly.poly_px_xiv0_eqn.lhs =
            [ poly |-> branch, varphi_r |-> a.varphi_rx_eqn, xiv |-> "xiv_0" ]
       /\ px_poly.poly_px_xiv0_eqn.rhs = 0

C26_Witness ==
  /\ px_poly_args.eta = << 3, 2 >>
  /\ px_poly_args.eta_choice = << 1, 1 >>
  /\ px_poly # NoPoly
  /\ px_poly.poly_px_xiv_varphi_eqn = "poly_direct"

\* C27: once define_xi_related_eqns has run, for the configured eta = n/d the
\* recorded eta_dbldenom is 2*d, a positive even integer, and eta*eta_dbldenom
\* is the integer 2*n; it is the same whether or not do_raw is set.
C27_DoubleDenominatorClearsEta ==
  Executed("define_xi_related_eqns") =>
    LET n == args.eta[1]
        d == args.eta[2]
    IN /\ eta_dbldenom = 2 * d
       /\ eta_dbldenom > 0
       /\ eta_dbldenom % 2 = 0
       /\ (n * eta_dbldenom) % d = 0
       /\ (n * eta_dbldenom) \div d = 2 * n

C27_Witness ==
  /\ Executed("define_xi_related_eqns")
  /\ args.do_raw
  /\ args.eta = << 3, 2 >>
  /\ eta_dbldenom = 4

\* the diagnostics of the three sine-model singularity skips
SineSkipDiagnostics ==
  { "Cannot compute all beta equations for sin(beta) model and eta=1",
    "Cannot compute all metric tensor equations for sin(beta) model and eta=1",
    "Cannot compute geodesic equations for sin(beta) model and eta>=1" }

\* a construction whose beta_type is not 'sin': the erosion model is the tangent
\* one, the selector raises nothing (a ValueError comes from the flow-model
\* stage or from the parameter substitution only), and no sine-model skip is
\* applied (no such diagnostic, the tan(beta) inversion and the metric outputs
\* are computed also at eta = 1)
NonSineUnvalidated ==
  /\ Executed("define_xi_model_eqn") => store["xi_varphi_beta_eqn"] = "xi_model_tan"
  /\ ran # << >> /\ ran[Len(ran)] = "define_xi_model_eqn" => exc = "none"
  /\ exc = "ValueError" =>
       ran[Len(ran)] \in { "define_varphi_model_eqn", "prep_geodesic_eqns" }
  /\ diag \cap SineSkipDiagnostics = {}
  /\ (Executed("define_tanbeta_eqns") /\ exc # "IndexError") =>
       store["tanbeta_alpha_eqn"] = "eqn"
  /\ Executed("define_g_eqns") => \A n \in W_define_g_eqns : store[n] = "eqn"
  /\ Executed("define_geodesic_eqns") =>
       \A n \in W_define_geodesic_eqns : store[n] = "eqn"

\* C28 as stated: every beta_type other than 'sin' is handled as the tangent
\* model, so that next to the tangent relation, the absence of an error and the
\* absence of the sine skips, the tangent model's exclusion of the indicatrix
\* stage at eta = 1/4 and eta = 3/2 applies to it.
C28_NonSineIsTangentModel ==
  (~args.do_nothing /\ args.beta_type # "sin") =>
    /\ NonSineUnvalidated
    /\ (args.eta \in { << 1, 4 >>, << 3, 2 >> } /\ Executed("define_idtx_fgtx_eqns")) =>
         /\ IndicatrixDiagnostic \in diag
         /\ \A n \in IndicatrixResults : store[n] = "None"

\* C28 amended: a beta_type other than 'sin' gets the tangent relation, raises
\* nothing and is exempt from the sine skips, but the exclusion of the
\* indicatrix stage at eta = 1/4 and eta = 3/2 applies to the exact string
\* 'tan' only; for any other string the stage runs its root selection.
C28_NonSineTangentRelationOnly ==
  (~args.do_nothing /\ args.beta_type # "sin") =>
    /\ NonSineUnvalidated
    /\ (args.eta \in { << 1, 4 >>, << 3, 2 >> } /\ Executed("define_idtx_fgtx_eqns")) =>
         IF args.beta_type = "tan"
         THEN /\ IndicatrixDiagnostic \in diag
              /\ \A n \in IndicatrixResults : store[n] = "None"
         ELSE /\ IndicatrixDiagnostic \notin diag
              /\ store["cosbetasqrd_pz_varphi_solns"] = "eqn"

C28_Witness ==
  /\ args.beta_type = "cot"
  /\ args.eta = << 1, 1 >>
  /\ args.do_geodesic
  /\ pc = "done"
  /\ store["xi_varphi_beta_eqn"] = "xi_model_tan"
  /\ store["tanbeta_alpha_eqn"] = "eqn"
  /\ store["g_varphi_pxpz_eqn"] = "eqn"
  /\ store["geodesic_eqns"] = "eqn"

\* C29: in every construction, none of the attributes a stage reads from
\* earlier stages holds None: whatever a degenerate skip left as None is read
\* by no later stage, or only by a stage that the same condition skips.
C29_NoStageReadsNone ==
  \A n \in rd \cap EquationNames : store[n] # "None"

\* a finished sine, eta = 1 construction with both optional parts: the ray-angle,
\* metric and geodesic skips have all left None entries behind
C29_Witness ==
  /\ pc = "done"
  /\ args.beta_type = "sin" /\ args.eta = << 1, 1 >>
  /\ args.do_idtx /\ args.do_geodesic
  /\ Executed("define_geodesic_eqns")
  /\ store["tanbeta_alpha_eqn"] = "None"
  /\ store["g_varphi_pxpz_eqn"] = "None"
  /\ store["gstar_eigenvalues"] = "None"
  /\ store["gstar_ij_mat"] = "None"
  /\ store["g_ij_mat"] = "None"

\* C30: with do_raw the mapping passed to the constructor does not reach the
\* geodesic stages: a construction with do_raw and do_geodesic ends its
\* geodesic part exactly as one without a mapping does, whatever mapping was
\* passed (skipped for the sine model with eta >= 1; otherwise the
\* substitution of None raises in prep_geodesic_eqns, after the five matrices
\* and equations before it, and define_geodesic_eqns is never entered).
C30_RawDiscardsParameters ==
  ( /\ ~args.do_nothing
    /\ args.do_geodesic
    /\ args.do_raw \/ args.parameters = "None"
    /\ Executed("prep_geodesic_eqns") )
  => IF args.eta[1] >= args.eta[2] /\ args.beta_type = "sin"
     THEN /\ \A n \in W_prep_geodesic_eqns : store[n] = "None"
          /\ ran[Len(ran)] = "prep_geodesic_eqns" => exc = "none"
          /\ Executed("define_geodesic_eqns") =>
               \A n \in W_define_geodesic_eqns : store[n] = "None"
     ELSE /\ pc = "failed"
          /\ exc \in { "ValueError", "TypeError" }
          /\ ran[Len(ran)] = "prep_geodesic_eqns"
          /\ store["gstar_ij_tanalpha_mat"] = "eqn"
          /\ \A n \in { "gstar_ij_mat", "g_ij_mat", "g_ij_mat_lambdified",
                         "gstar_ij_mat_lambdified" } : store[n] = "None"
          /\ \A n \in W_define_geodesic_eqns : store[n] = "absent"

C30_Witness ==
  /\ args.do_raw /\ args.do_geodesic
  /\ args.parameters = "mapping"
  /\ args.beta_type = "tan"
  /\ ran # << >> /\ ran[Len(ran)] = "prep_geodesic_eqns"
  /\ pc = "failed"
  /\ store["gstar_ij_mat"] = "None"

=============================================================================
